---------------------------- MODULE Spec2Model ----------------------------
(***************************************************************************)
(* Model of the instanced particle renderer of webgl-testing:              *)
(*   src/webgl-renderer-optimized.js   (class OptimizedWebGLRenderer)      *)
(* together with the part of the WebGL 1 context it drives (buffers,       *)
(* vertex attributes, attribute divisors, depth test, framebuffer).        *)
(*                                                                         *)
(* JavaScript strings are sequences of one-character strings.  JavaScript  *)
(* numbers are exact rationals <<n, d>> with d > 0 in lowest terms, and    *)
(* NaN is <<0, 0>>.  A Float32Array store keeps NaN and keeps every        *)
(* integer of magnitude below 2^24, which covers the coordinates and sizes *)
(* used here; colour channels are kept as the exact rational that is       *)
(* rounded on store.                                                       *)
(***************************************************************************)
EXTENDS Integers, Sequences, FiniteSets, TLC

VARIABLES
    phase,              \* "new" | "ready" | "threw": the constructor's outcome
    env,                \* the browser: WebGL support, extension, shader build
    gl,                 \* this.gl is a context (TRUE) or null (FALSE)
    instancedArraysExt, \* this.instancedArraysExt is an object (TRUE) or null
    programInfo,        \* this.programInfo is set (TRUE) or undefined (FALSE)
    circleVertexCount,  \* this.circleVertexCount
    ctx,                \* the state of the WebGL context (see GLInit)
    lastCall,           \* the last operation: its input, commands, outcome
    pcColor,            \* parseColor alone: its argument
    pcResult,           \* parseColor alone: its result
    vsInput,            \* the vertex shader alone: its attributes and uniform
    glPosition,         \* the vertex shader alone: gl_Position.xy
    draw,               \* a WebGLDraw object and its last call
    wrapper,            \* a WebGLParticleRendererOptimized: particles, last frame
    app,                \* the particle-simulation page: its variables and frames
    pt,                 \* one Particle of the simulation
    wr                  \* a WebGLRenderer object and its buffers

\* the OptimizedWebGLRenderer, its context, and the two functions taken alone
rendererVars == <<phase, env, gl, instancedArraysExt, programInfo, circleVertexCount,
                  ctx, lastCall, pcColor, pcResult, vsInput, glPosition>>

\* the other objects of the repository
otherVars == <<draw, wrapper, app, pt, wr>>

vars == <<rendererVars, otherVars>>

----------------------------------------------------------------------------
(* Bounds of the model *)

\* longest particle list passed to drawParticles
MaxParticles == 2

\* longest string over Alphabet given to parseColor
MaxStrLen == 3

----------------------------------------------------------------------------
(* JavaScript numbers *)

NaN == <<0, 0>>

IsNaN(a) == a[2] = 0

Abs(n) == IF n < 0 THEN -n ELSE n

RECURSIVE Gcd(_, _)
Gcd(a, b) == IF b = 0 THEN a ELSE Gcd(b, a % b)

\* the rational n/d in lowest terms with a positive denominator
Rat(n, d) ==
    IF d = 0 THEN NaN
    ELSE LET g == Gcd(Abs(n), Abs(d))
             s == IF d < 0 THEN -1 ELSE 1
         IN  <<(s * n) \div g, (s * d) \div g>>

Num(n) == <<n, 1>>

\* The operations divide by common factors before they multiply, which
\* keeps the intermediate integers small.
Add(a, b) ==
    IF IsNaN(a) \/ IsNaN(b) THEN NaN
    ELSE LET g == Gcd(a[2], b[2])
         IN  Rat(a[1] * (b[2] \div g) + b[1] * (a[2] \div g), (a[2] \div g) * b[2])

Neg(a) == <<-a[1], a[2]>>

Sub(a, b) == Add(a, Neg(b))

Mul(a, b) ==
    IF IsNaN(a) \/ IsNaN(b) THEN NaN
    ELSE LET g1 == Gcd(Abs(a[1]), b[2])
             g2 == Gcd(Abs(b[1]), a[2])
         IN  Rat((a[1] \div g1) * (b[1] \div g2), (a[2] \div g2) * (b[2] \div g1))

\* a / k for a non-zero integer constant k
DivInt(a, k) == IF IsNaN(a) THEN NaN ELSE Rat(a[1], a[2] * k)

\* a < b; every comparison with NaN is false
Lt(a, b) ==
    /\ ~IsNaN(a)
    /\ ~IsNaN(b)
    /\ LET g == Gcd(a[2], b[2])
       IN  a[1] * (b[2] \div g) < b[1] * (a[2] \div g)

\* a === 0
IsZero(a) == ~IsNaN(a) /\ a[1] = 0

----------------------------------------------------------------------------
(* JavaScript strings and the conversions parseColor uses *)

Digits == {"0", "1", "2", "3", "4", "5", "6", "7", "8", "9"}

HexDigits == Digits \cup {"a", "b", "c", "d", "e", "f",
                          "A", "B", "C", "D", "E", "F"}

\* the characters \s matches, of those the model's strings are made of
WhiteSpace == {" "}

\* the characters of the class [\d.]
DigitOrDot == Digits \cup {"."}

DigitVal(c) ==
    CASE c = "0" -> 0 [] c = "1" -> 1 [] c = "2" -> 2 [] c = "3" -> 3
      [] c = "4" -> 4 [] c = "5" -> 5 [] c = "6" -> 6 [] c = "7" -> 7
      [] c = "8" -> 8 [] c = "9" -> 9
      [] c \in {"a", "A"} -> 10 [] c \in {"b", "B"} -> 11
      [] c \in {"c", "C"} -> 12 [] c \in {"d", "D"} -> 13
      [] c \in {"e", "E"} -> 14 [] c \in {"f", "F"} -> 15

Min(S) == CHOOSE m \in S : \A k \in S : m <= k

\* the index after the longest run of characters of class that starts at i
RunEnd(s, i, class) ==
    Min({j \in i..(Len(s) + 1) : j = Len(s) + 1 \/ s[j] \notin class})

\* s[i] = c, false past the end of s
CharAt(s, i, c) == i >= 1 /\ i <= Len(s) /\ s[i] = c

\* String.prototype.startsWith
StartsWith(s, pre) == Len(s) >= Len(pre) /\ SubSeq(s, 1, Len(pre)) = pre

\* String.prototype.slice(a, b) for 0 <= a <= b
Slice(s, a, b) == SubSeq(s, a + 1, IF b < Len(s) THEN b ELSE Len(s))

\* the value of the digits s[from..to-1] in the given radix
RECURSIVE DigitsValue(_, _, _, _)
DigitsValue(s, from, to, radix) ==
    IF to <= from THEN 0
    ELSE DigitsValue(s, from, to - 1, radix) * radix + DigitVal(s[to - 1])

RECURSIVE Pow10(_)
Pow10(k) == IF k <= 0 THEN 1 ELSE 10 * Pow10(k - 1)

\* parseInt(s, radix), radix 16 or 0 (not given): leading white space, a sign
\* and a 0x prefix are skipped, the longest run of digits is read, and no
\* digit at all gives NaN
ParseInt(s, radix) ==
    LET a    == RunEnd(s, 1, WhiteSpace)
        neg  == CharAt(s, a, "-")
        b    == IF CharAt(s, a, "-") \/ CharAt(s, a, "+") THEN a + 1 ELSE a
        hex  == CharAt(s, b, "0") /\ (CharAt(s, b + 1, "x") \/ CharAt(s, b + 1, "X"))
        c    == IF hex THEN b + 2 ELSE b
        r    == IF radix = 16 \/ hex THEN 16 ELSE 10
        e    == RunEnd(s, c, IF r = 16 THEN HexDigits ELSE Digits)
        v    == DigitsValue(s, c, e, r)
    IN  IF e = c THEN NaN ELSE Num(IF neg THEN -v ELSE v)

\* parseFloat(s) for s made of digits and dots (what [\d.]+ captures): the
\* longest prefix digits[.digits] or .digits is read; none gives NaN
ParseFloat(s) ==
    LET a  == RunEnd(s, 1, Digits)
        b  == IF CharAt(s, a, ".") THEN a + 1 ELSE a
        e  == IF b > a THEN RunEnd(s, b, Digits) ELSE a
        ip == DigitsValue(s, 1, a, 10)
        fp == DigitsValue(s, b, e, 10)
    IN  IF a = 1 /\ e = b THEN NaN
        ELSE Rat(ip * Pow10(e - b) + fp, Pow10(e - b))

HslPrefix == <<"h", "s", "l", "(">>

\* color.match(/hsl\(([\d.]+)\s*,\s*(\d+)%\s*,\s*(\d+)%\)/) tried at index p.
\* Every group is followed by a character outside its class, so the longest
\* run is the only candidate and no backtracking changes the result.
HslMatchAt(s, p) ==
    LET a == p + 4
        b == RunEnd(s, a, DigitOrDot)
        c == RunEnd(s, b, WhiteSpace)
        d == RunEnd(s, c + 1, WhiteSpace)
        e == RunEnd(s, d, Digits)
        f == RunEnd(s, e + 1, WhiteSpace)
        g == RunEnd(s, f + 1, WhiteSpace)
        h == RunEnd(s, g, Digits)
    IN  IF /\ p + 3 <= Len(s)
           /\ SubSeq(s, p, p + 3) = HslPrefix
           /\ b > a
           /\ CharAt(s, c, ",")
           /\ e > d
           /\ CharAt(s, e, "%")
           /\ CharAt(s, f, ",")
           /\ h > g
           /\ CharAt(s, h, "%")
           /\ CharAt(s, h + 1, ")")
        THEN [ok |-> TRUE, g1 |-> SubSeq(s, a, b - 1),
              g2 |-> SubSeq(s, d, e - 1), g3 |-> SubSeq(s, g, h - 1),
              last |-> h + 1]
        ELSE [ok |-> FALSE, g1 |-> <<>>, g2 |-> <<>>, g3 |-> <<>>, last |-> 0]

\* String.prototype.match with the unanchored pattern: the leftmost match
HslMatch(s) ==
    LET starts == {p \in 1..Len(s) : HslMatchAt(s, p).ok}
    IN  IF starts = {} THEN HslMatchAt(s, Len(s) + 1)
        ELSE HslMatchAt(s, Min(starts))

\* a / b
Div(a, b) ==
    IF IsNaN(a) \/ IsNaN(b) \/ b[1] = 0 THEN NaN
    ELSE Mul(a, Rat(b[2], b[1]))

----------------------------------------------------------------------------
(* OptimizedWebGLRenderer.parseColor *)

\* a helper that does not bring t back into 0..1
hue2rgbNoWrap(p, q, t) ==
    IF Lt(t, Rat(1, 6)) THEN Add(p, Mul(Mul(Sub(q, p), Num(6)), t))
    ELSE IF Lt(t, Rat(1, 2)) THEN q
    ELSE IF Lt(t, Rat(2, 3))
         THEN Add(p, Mul(Mul(Sub(q, p), Sub(Rat(2, 3), t)), Num(6)))
    ELSE p

hue2rgb(p, q, t0) ==
    LET t1 == IF Lt(t0, Num(0)) THEN Add(t0, Num(1)) ELSE t0
        t  == IF Lt(Num(1), t1) THEN Sub(t1, Num(1)) ELSE t1
    IN  IF Lt(t, Rat(1, 6)) THEN Add(p, Mul(Mul(Sub(q, p), Num(6)), t))
        ELSE IF Lt(t, Rat(1, 2)) THEN q
        ELSE IF Lt(t, Rat(2, 3))
             THEN Add(p, Mul(Mul(Sub(q, p), Sub(Rat(2, 3), t)), Num(6)))
        ELSE p

hslToRgba(m) ==
    LET h == DivInt(ParseFloat(m.g1), 360)
        s == DivInt(ParseInt(m.g2, 0), 100)
        l == DivInt(ParseInt(m.g3, 0), 100)
        q == IF Lt(l, Rat(1, 2)) THEN Mul(l, Add(Num(1), s))
             ELSE Sub(Add(l, s), Mul(l, s))
        p == Sub(Mul(Num(2), l), q)
    IN  IF IsZero(s) THEN <<l, l, l, Num(1)>>
        ELSE <<hue2rgb(p, q, Add(h, Rat(1, 3))),
               hue2rgb(p, q, h),
               hue2rgb(p, q, Sub(h, Rat(1, 3))),
               Num(1)>>

\* a hex branch that scales each channel by 256 instead of 255
hexToRgbaDiv256(color) ==
    <<DivInt(ParseInt(Slice(color, 1, 3), 16), 256),
      DivInt(ParseInt(Slice(color, 3, 5), 16), 256),
      DivInt(ParseInt(Slice(color, 5, 7), 16), 256),
      Num(1)>>

hexToRgba(color) ==
    <<DivInt(ParseInt(Slice(color, 1, 3), 16), 255),
      DivInt(ParseInt(Slice(color, 3, 5), 16), 255),
      DivInt(ParseInt(Slice(color, 5, 7), 16), 255),
      Num(1)>>

Black == <<Num(0), Num(0), Num(0), Num(1)>>

\* parseColor(color) for a string color
parseColor(color) ==
    LET match == HslMatch(color)
    IN  IF StartsWith(color, <<"h", "s", "l">>) /\ match.ok
        THEN hslToRgba(match)
        ELSE IF StartsWith(color, <<"#">>) THEN hexToRgba(color)
        ELSE Black

\* A JavaScript value in a particle's color field: a string or undefined
JSString(chars) == [t |-> "string", s |-> chars]

Undefined == [t |-> "undefined", s |-> <<>>]

\* color.startsWith raises a TypeError on anything but a string
parseColorThrows(color) == color.t # "string"

----------------------------------------------------------------------------
(* parseColor on its own: the strings it is given *)

Alphabet == {"#", "h", "s", "l", "f", "A", "0", "9", "g", "-", "x", " "}

\* every string over Alphabet of length at most MaxStrLen
ShortStrings == UNION {[1..n -> Alphabet] : n \in 0..MaxStrLen}

HexSample == {"0", "9", "a", "f", "F"}

HexPairs == {<<a, b>> : a \in HexSample, b \in HexSample}

\* '#' and six hexadecimal digits
HexStrings == {<<"#">> \o rr \o gg \o bb :
                  rr \in HexPairs, gg \in HexPairs, bb \in HexPairs}

HueStrings == {<<"0">>, <<"6", "0">>, <<"1", "2", "0">>, <<"2", "4", "0">>,
               <<"1", "8", "0">>, <<"3", "5", "9">>, <<"1", "2", ".", "5">>, <<".", "5">>,
               <<"1", ".", "2", ".", "3">>, <<".">>}

PercentStrings == {<<"0">>, <<"7">>, <<"5", "0">>, <<"7", "0">>,
                   <<"1", "0", "0">>}

Separators == {<<",">>, <<",", " ">>, <<" ", ",", " ">>}

\* hsl(H, S%, L%)
HslStrings == {HslPrefix \o h \o sep \o sat \o <<"%">> \o sep \o lum \o <<"%", ")">> :
                  h \in HueStrings, sep \in Separators,
                  sat \in PercentStrings, lum \in PercentStrings}

\* strings that only resemble one of the two formats, and colour names
OddStrings ==
    {<<>>,
     <<"p", "u", "r", "p", "l", "e">>,
     <<"r", "e", "d">>,
     <<"r", "g", "b", "(", "1", ",", "2", ",", "3", ")">>,
     <<"#", "f", "f", "f">>,
     <<"#", "f", "f", "0", "0", "0">>,
     <<"#", "g", "g", "0", "0", "0", "0">>,
     <<"#", "f", "g", "0", "0", "0", "0">>,
     <<"#", "f", "f", "0", "0", "0", "0", "z", "z">>,
     <<"#", "-", "f", "0", "0", "0", "0">>,
     <<"#", "0", "x", "0", "0", "0", "0">>,
     <<"f", "f", "0", "0", "0", "0">>,
     <<"h", "s", "l">>,
     <<"h", "s", "l", "(", ")">>,
     <<"h", "s", "l", "(", "0", ",", "1", "0", "0", ",", "5", "0", ")">>,
     <<"h", "s", "l", "(", "0", ",", "1", "0", "0", "%", ",", "5", "0", "%">>,
     <<"h", "s", "l", "(", "-", "1", ",", "1", "0", "0", "%", ",", "5", "0", "%", ")">>,
     <<"h", "s", "l", "(", "0", ",", "1", ".", "5", "%", ",", "5", "0", "%", ")">>,
     <<"h", "s", "l", "a", "(", "0", ",", "1", "0", "0", "%", ",", "5", "0", "%", ")">>,
     <<"h", "s", "l", "(", "0", ",", "1", "0", "0", "%", ",", "5", "0", "%", ")", "x">>,
     <<"h", "s", "l", " ", "h", "s", "l", "(", "0", ",", "1", "0", "0", "%", ",", "5", "0", "%", ")">>,
     <<"x", "h", "s", "l", "(", "0", ",", "1", "0", "0", "%", ",", "5", "0", "%", ")">>,
     <<"H", "S", "L", "(", "0", ",", "1", "0", "0", "%", ",", "5", "0", "%", ")">>}

ColorInputs == ShortStrings \cup HexStrings \cup HslStrings \cup OddStrings

NoResult == <<>>

\* parseColor(pcColor), called once on the string chosen initially
ParseColorCall ==
    /\ UNCHANGED otherVars
    /\ pcResult = NoResult
    /\ pcResult' = parseColor(pcColor)
    /\ UNCHANGED <<phase, env, gl, instancedArraysExt, programInfo,
                   circleVertexCount, ctx, lastCall, pcColor,
                   vsInput, glPosition>>

----------------------------------------------------------------------------
(* The WebGL context the renderer drives *)

Attrs == {"vertexPosition", "instancePosition", "instanceSize", "instanceColor"}

InstanceAttrs == {"instancePosition", "instanceSize", "instanceColor"}

\* positionBuffer is the buffer a fillCircle call creates and deletes
BufferNames == {"circleBuffer", "instancePositionBuffer",
                "instanceSizeBuffer", "instanceColorBuffer", "positionBuffer"}

\* the drawing surface: canvas.width x canvas.height pixels
Canvas == [width |-> 3, height |-> 1]

Pixels == (0..(Canvas.width - 1)) \X (0..(Canvas.height - 1))

\* framebuffer tags: cleared, written by an earlier operation, or the index
\* of the particle of the current operation whose fragment was written last
Background == -1
Earlier == -2

\* depth buffer values: the cleared depth 1.0, and the window depth 0.5 of
\* every fragment (gl_Position.z = 0, w = 1)
DepthClear == 2
DepthFragment == 1

\* what a draw does with a vertex fetch outside the bound buffer's storage
\* (WebGL 1.0, section 6.6): INVALID_OPERATION and no geometry, or a zero,
\* or a value from within the buffer
OutOfRangeOutcomes == {"error", "zero", "clamp"}

\* one command sent to the context
Cmd(op, target, n, m, data) ==
    [op |-> op, target |-> target, n |-> n, m |-> m, data |-> data]

GLInit ==
    [program    |-> "none",
     resolution |-> <<0, 0>>,
     arrayBuffer |-> "none",
     buffers    |-> [b \in BufferNames |-> <<>>],
     enabled    |-> [a \in Attrs |-> FALSE],
     pointer    |-> [a \in Attrs |-> [buffer |-> "none", size |-> 4]],
     divisor    |-> [a \in Attrs |-> 0],
     depthTest  |-> FALSE,
     blend      |-> FALSE,
     fb         |-> [p \in Pixels |-> Background],
     depth      |-> [p \in Pixels |-> DepthClear],
     drawNo     |-> 0]

\* number of elements an enabled attribute array can supply
Elements(c, a) ==
    IF c.pointer[a].buffer = "none" THEN 0
    ELSE Len(c.buffers[c.pointer[a].buffer]) \div c.pointer[a].size

\* element idx of attribute a: the value fetched for a vertex or an instance
Fetch(c, a, idx, oob) ==
    LET sz  == c.pointer[a].size
        buf == c.buffers[c.pointer[a].buffer]
        n   == Elements(c, a)
        zero == [k \in 1..sz |-> Num(0)]
    IN  IF ~c.enabled[a] THEN [k \in 1..sz |-> IF k = 4 THEN Num(1) ELSE Num(0)]
        ELSE IF idx < n THEN SubSeq(buf, idx * sz + 1, idx * sz + sz)
        ELSE IF oob = "clamp" /\ n > 0 THEN SubSeq(buf, (n - 1) * sz + 1, n * sz)
        ELSE zero

\* index of the element of attribute a read by vertex v of instance j
FetchIndex(c, a, v, j) == IF c.divisor[a] = 0 THEN v ELSE j \div c.divisor[a]

\* some vertex of the draw reads past the storage of an enabled attribute:
\* the last vertex of the last instance reads the largest index
OutOfRange(c, count, instances) ==
    \E a \in Attrs :
        /\ c.enabled[a]
        /\ FetchIndex(c, a, count - 1, instances - 1) >= Elements(c, a)

\* the pixels whose centre lies inside the shape of radius size around pos:
\* aVertexPosition * aInstanceSize + aInstancePosition, in pixels of a
\* viewport that equals uResolution
Disk(pos, size) ==
    IF IsNaN(pos[1]) \/ IsNaN(pos[2]) \/ IsNaN(size) THEN {}
    ELSE {p \in Pixels :
            LET dx == (2 * p[1] + 1) * pos[1][2] - 2 * pos[1][1]
                dy == (2 * p[2] + 1) * pos[2][2] - 2 * pos[2][1]
                xd == pos[1][2] * pos[1][2]
                yd == pos[2][2] * pos[2][2]
                sd == size[2] * size[2]
            IN  dx * dx * yd * sd + dy * dy * xd * sd
                   < 4 * size[1] * size[1] * xd * yd}

\* all count vertices of instance j read the same value of attribute a.
\* Every index past the storage reads one and the same value, so the first
\* such index stands for all of them.
Uniform(c, a, count, j, oob) ==
    LET first == FetchIndex(c, a, 0, j)
        last  == FetchIndex(c, a, count - 1, j)
        n     == Elements(c, a)
    IN  \A i \in (first + 1)..(IF last < n THEN last ELSE n) :
            Fetch(c, a, i, oob) = Fetch(c, a, first, oob)

\* the pixels instance j of a fan of count vertices covers.  The ring
\* vertices span a shape only when every vertex reads one position and one
\* size; a fan whose ring vertices read other values than its centre (zeros
\* past the storage) has no area.
Coverage(c, count, j, oob) ==
    IF /\ count >= 3
       /\ c.enabled["vertexPosition"]
       /\ Elements(c, "vertexPosition") >= count
       /\ Uniform(c, "instancePosition", count, j, oob)
       /\ Uniform(c, "instanceSize", count, j, oob)
    THEN Disk(Fetch(c, "instancePosition", FetchIndex(c, "instancePosition", 0, j), oob),
              Fetch(c, "instanceSize", FetchIndex(c, "instanceSize", 0, j), oob)[1])
    ELSE {}

\* the fragments of one instance: depth test LESS, then colour and depth write
DrawInstance(c, count, j, oob) ==
    LET cover  == Coverage(c, count, j, oob)
        passes == {p \in cover : ~c.depthTest \/ DepthFragment < c.depth[p]}
    IN  [c EXCEPT
           !.fb    = [p \in Pixels |-> IF p \in passes THEN c.drawNo + j ELSE c.fb[p]],
           !.depth = [p \in Pixels |-> IF p \in passes /\ c.depthTest
                                       THEN DepthFragment ELSE c.depth[p]]]

RECURSIVE DrawInstances(_, _, _, _, _)
DrawInstances(c, count, j, instances, oob) ==
    IF j >= instances THEN c
    ELSE DrawInstances(DrawInstance(c, count, j, oob), count, j + 1, instances, oob)

\* drawArrays / drawArraysInstancedANGLE
Draw(c, count, instances, oob) ==
    LET drawn == IF c.program = "none" \/ (OutOfRange(c, count, instances) /\ oob = "error")
                 THEN c
                 ELSE DrawInstances(c, count, 0, instances, oob)
    IN  [drawn EXCEPT !.drawNo = c.drawNo + 1]

\* the effect of one command on the context
GLApply(c, cmd, oob) ==
    CASE cmd.op = "useProgram" -> [c EXCEPT !.program = cmd.target]
      [] cmd.op = "uniform2f" -> [c EXCEPT !.resolution = <<cmd.n, cmd.m>>]
      [] cmd.op = "bindBuffer" -> [c EXCEPT !.arrayBuffer = cmd.target]
      [] cmd.op = "bufferData" ->
            IF c.arrayBuffer = "none" THEN c
            ELSE [c EXCEPT !.buffers[c.arrayBuffer] = cmd.data]
      [] cmd.op = "enableVertexAttribArray" -> [c EXCEPT !.enabled[cmd.target] = TRUE]
      [] cmd.op = "disableVertexAttribArray" -> [c EXCEPT !.enabled[cmd.target] = FALSE]
      [] cmd.op = "vertexAttribPointer" ->
            [c EXCEPT !.pointer[cmd.target] = [buffer |-> c.arrayBuffer, size |-> cmd.n]]
      [] cmd.op = "vertexAttribDivisorANGLE" -> [c EXCEPT !.divisor[cmd.target] = cmd.n]
      [] cmd.op = "drawArraysInstancedANGLE" -> Draw(c, cmd.n, cmd.m, oob)
      [] cmd.op = "drawArrays" -> Draw(c, cmd.n, 1, oob)
      [] cmd.op = "enable" ->
            IF cmd.target = "DEPTH_TEST" THEN [c EXCEPT !.depthTest = TRUE]
            ELSE [c EXCEPT !.blend = TRUE]
      [] cmd.op = "clear" ->
            [c EXCEPT !.fb = [p \in Pixels |-> Background],
                      !.depth = [p \in Pixels |-> DepthClear]]
      [] cmd.op = "deleteBuffer" ->
            [c EXCEPT !.buffers[cmd.target] = <<>>,
                      !.arrayBuffer = IF @ = cmd.target THEN "none" ELSE @,
                      !.pointer = [a \in Attrs |->
                                     IF c.pointer[a].buffer = cmd.target
                                     THEN [buffer |-> "none", size |-> c.pointer[a].size]
                                     ELSE c.pointer[a]]]
      [] OTHER -> c

RECURSIVE GLRun(_, _, _, _)
GLRun(c, cmds, k, oob) ==
    IF k > Len(cmds) THEN c
    ELSE GLRun(GLApply(c, cmds[k], oob), cmds, k + 1, oob)

\* the context at the start of an operation that sends commands: fragments
\* of earlier operations are no longer those of the current one
StartOperation(c) ==
    [c EXCEPT !.drawNo = 0,
              !.fb = [p \in Pixels |-> IF c.fb[p] = Background THEN Background
                                       ELSE Earlier]]

----------------------------------------------------------------------------
(* Particles *)

Particle(x, y, size, color) ==
    [null |-> FALSE, x |-> x, y |-> y, size |-> size, color |-> color]

\* a null entry of the particle list
NullParticle ==
    [null |-> TRUE, x |-> 0, y |-> 0, size |-> 0, color |-> Undefined]

White == <<"#", "f", "f", "f", "f", "f", "f">>

\* the records with a string colour that particle lists are made of: a
\* well-formed colour and a malformed one
ParticlePool ==
    {Particle(1, 0, 1, JSString(White)),
     Particle(2, 1, 2, JSString(<<"#", "1", "2">>))}

\* records that are not particles: one without a colour, and null
BadRecords == {Particle(1, 1, 1, Undefined), NullParticle}

\* every list over the pool, and the lists of white particles that end in a
\* bad record
ParticleLists ==
    UNION {[1..n -> ParticlePool] : n \in 0..MaxParticles}
    \cup {[i \in 1..n |-> IF i = n THEN bad ELSE Particle(1, 0, 1, JSString(White))] :
             n \in 1..MaxParticles, bad \in BadRecords}

----------------------------------------------------------------------------
(* OptimizedWebGLRenderer *)

\* segments of the template circle (initBuffers)
Segments == 12

\* Math.cos(theta) and Math.sin(theta) for theta = (i / segments) * Math.PI * 2,
\* computed in doubles.  For i = 0 theta is 0, with cosine 1 and sine 0.  For
\* i = segments theta is the double nearest to 2 pi, which is not 2 pi: its
\* cosine rounds to 1, its sine is about -2.4e-16 and not 0.  Every other
\* value is kept as a symbol.
MathCos(i, segments) ==
    IF i = 0 \/ i = segments THEN Num(1) ELSE <<"cos", i, segments>>

MathSin(i, segments) ==
    IF i = 0 THEN Num(0) ELSE <<"sin", i, segments>>

\* the vertices initBuffers pushes: the centre (0, 0), then the ring
\* vertices for i = 0..segments
CircleTemplate(segments) ==
    [k \in 1..(2 * (segments + 2)) |->
        IF k <= 2 THEN Num(0)
        ELSE IF k % 2 = 1 THEN MathCos((k - 3) \div 2, segments)
        ELSE MathSin((k - 4) \div 2, segments)]

\* the template fan of the renderer
CircleVertices == CircleTemplate(Segments)

\* the record of an operation: its name, its argument (a particle list, or
\* null) as passed and as the operation leaves it, whether it raised, the
\* commands it sent to the context, and whether the operation before it was
\* a clear() that completed
NoCall == [op |-> "none", arg |-> <<>>, argAfter |-> <<>>, argNull |-> FALSE,
           raised |-> FALSE, cmds |-> <<>>, afterClear |-> FALSE]

Call(op, arg, argNull, raised, cmds) ==
    [op |-> op, arg |-> arg, argAfter |-> arg, argNull |-> argNull,
     raised |-> raised, cmds |-> cmds,
     afterClear |-> (lastCall.op = "clear" /\ ~lastCall.raised)]

\* the browser: whether getContext gives a context, whether getExtension
\* gives ANGLE_instanced_arrays, how the shaders build, and what a draw does
\* with an out-of-range vertex fetch.  A field that cannot matter (no context;
\* no fallback draw) is held at one value.
Environments ==
    {e \in [glSupported : BOOLEAN,
            extAvailable : BOOLEAN,
            shaders : {"ok", "linkFails", "compileFailsThrows", "compileFailsLinkFails"},
            outOfRange : OutOfRangeOutcomes] :
        /\ ~e.glSupported => (~e.extAvailable /\ e.shaders = "ok")
        /\ (~e.glSupported \/ e.extAvailable \/ e.shaders # "ok")
              => e.outOfRange = "error"}

\* initBuffers, then the clear colour and blending of the constructor
ConstructorCmds ==
    <<Cmd("createBuffer", "circleBuffer", 0, 0, <<>>),
      Cmd("bindBuffer", "circleBuffer", 0, 0, <<>>),
      Cmd("bufferData", "", 0, 0, CircleVertices),
      Cmd("createBuffer", "instancePositionBuffer", 0, 0, <<>>),
      Cmd("createBuffer", "instanceSizeBuffer", 0, 0, <<>>),
      Cmd("createBuffer", "instanceColorBuffer", 0, 0, <<>>),
      Cmd("clearColor", "", 0, 0, <<Num(0), Num(0), Num(0), Num(1)>>),
      Cmd("enable", "BLEND", 0, 0, <<>>),
      Cmd("blendFunc", "SRC_ALPHA", 0, 0, <<>>)>>

\* new OptimizedWebGLRenderer(canvas).  Without a context the constructor
\* returns at once.  A shader that fails to compile is null, and attachShader
\* either raises on it (the object is never returned) or records an error and
\* the link fails; a failed link leaves programInfo undefined, and the
\* constructor goes on to initBuffers either way.
Constructor ==
    /\ UNCHANGED otherVars
    /\ phase = "new"
    /\ UNCHANGED <<env, pcColor, pcResult,
                   vsInput, glPosition>>
    /\ IF ~env.glSupported
       THEN /\ phase' = "ready"
            /\ lastCall' = Call("constructor", <<>>, FALSE, FALSE, <<>>)
            /\ UNCHANGED <<gl, instancedArraysExt, programInfo, circleVertexCount, ctx>>
       ELSE IF env.shaders = "compileFailsThrows"
       THEN /\ phase' = "threw"
            /\ lastCall' = Call("constructor", <<>>, FALSE, TRUE, <<>>)
            /\ UNCHANGED <<gl, instancedArraysExt, programInfo, circleVertexCount, ctx>>
       ELSE /\ phase' = "ready"
            /\ gl' = TRUE
            /\ instancedArraysExt' = env.extAvailable
            /\ programInfo' = (env.shaders = "ok")
            /\ circleVertexCount' = Segments + 2
            /\ ctx' = GLRun(StartOperation(ctx), ConstructorCmds, 1, env.outOfRange)
            /\ lastCall' = Call("constructor", <<>>, FALSE, FALSE, ConstructorCmds)

\* the browser gains or loses ANGLE_instanced_arrays after construction
SetExtensionAvailable ==
    /\ UNCHANGED otherVars
    /\ phase = "ready"
    /\ gl
    /\ env' = [env EXCEPT !.extAvailable = ~@]
    /\ UNCHANGED <<phase, gl, instancedArraysExt, programInfo, circleVertexCount,
                   ctx, lastCall, pcColor, pcResult,
                   vsInput, glPosition>>

ClearCmds ==
    <<Cmd("viewport", "", Canvas.width, Canvas.height, <<>>),
      Cmd("enable", "DEPTH_TEST", 0, 0, <<>>),
      Cmd("clear", "", 0, 0, <<>>)>>

\* clear(); this.gl.viewport raises when this.gl is null
Clear ==
    /\ UNCHANGED otherVars
    /\ phase = "ready"
    /\ UNCHANGED <<phase, env, gl, instancedArraysExt, programInfo,
                   circleVertexCount, pcColor, pcResult,
                   vsInput, glPosition>>
    /\ IF ~gl
       THEN /\ lastCall' = Call("clear", <<>>, FALSE, TRUE, <<>>)
            /\ UNCHANGED ctx
       ELSE /\ lastCall' = Call("clear", <<>>, FALSE, FALSE, ClearCmds)
            /\ ctx' = GLRun(StartOperation(ctx), ClearCmds, 1, env.outOfRange)

\* a position array filled y first
PositionsSwapped(particles) ==
    [k \in 1..(2 * Len(particles)) |->
        IF k % 2 = 1 THEN Num(particles[(k + 1) \div 2].y)
        ELSE Num(particles[k \div 2].x)]

\* the three arrays drawParticles fills from the list (lines 207-222)
Positions(particles) ==
    [k \in 1..(2 * Len(particles)) |->
        IF k % 2 = 1 THEN Num(particles[(k + 1) \div 2].x)
        ELSE Num(particles[k \div 2].y)]

Sizes(particles) == [k \in 1..Len(particles) |-> Num(particles[k].size)]

Colors(particles) ==
    LET color == [i \in 1..Len(particles) |-> parseColor(particles[i].color.s)]
    IN  [k \in 1..(4 * Len(particles)) |-> color[(k + 3) \div 4][((k - 1) % 4) + 1]]

\* reading particle.x of a null entry, or color.startsWith of a colour that
\* is not a string, raises while the arrays are filled
FillRaises(particles) ==
    \E i \in 1..Len(particles) :
        particles[i].null \/ parseColorThrows(particles[i].color)

\* program, resolution, the template stream and the three instance streams
\* (lines 225-283)
SetupCmds(positions, sizes, colors) ==
    <<Cmd("useProgram", "particle", 0, 0, <<>>),
      Cmd("uniform2f", "resolution", Canvas.width, Canvas.height, <<>>),
      Cmd("bindBuffer", "circleBuffer", 0, 0, <<>>),
      Cmd("enableVertexAttribArray", "vertexPosition", 0, 0, <<>>),
      Cmd("vertexAttribPointer", "vertexPosition", 2, 0, <<>>),
      Cmd("bindBuffer", "instancePositionBuffer", 0, 0, <<>>),
      Cmd("bufferData", "", 0, 0, positions),
      Cmd("enableVertexAttribArray", "instancePosition", 0, 0, <<>>),
      Cmd("vertexAttribPointer", "instancePosition", 2, 0, <<>>),
      Cmd("bindBuffer", "instanceSizeBuffer", 0, 0, <<>>),
      Cmd("bufferData", "", 0, 0, sizes),
      Cmd("enableVertexAttribArray", "instanceSize", 0, 0, <<>>),
      Cmd("vertexAttribPointer", "instanceSize", 1, 0, <<>>),
      Cmd("bindBuffer", "instanceColorBuffer", 0, 0, <<>>),
      Cmd("bufferData", "", 0, 0, colors),
      Cmd("enableVertexAttribArray", "instanceColor", 0, 0, <<>>),
      Cmd("vertexAttribPointer", "instanceColor", 4, 0, <<>>)>>

\* a batched path that leaves the divisors at 1
InstancedCmdsNoReset(count, vertexCount) ==
    <<Cmd("vertexAttribDivisorANGLE", "instancePosition", 1, 0, <<>>),
      Cmd("vertexAttribDivisorANGLE", "instanceSize", 1, 0, <<>>),
      Cmd("vertexAttribDivisorANGLE", "instanceColor", 1, 0, <<>>),
      Cmd("drawArraysInstancedANGLE", "TRIANGLE_FAN", vertexCount, count, <<>>)>>

\* a batched path that sets no divisor for the size attribute
InstancedCmdsNoSizeDivisor(count, vertexCount) ==
    <<Cmd("vertexAttribDivisorANGLE", "instancePosition", 1, 0, <<>>),
      Cmd("vertexAttribDivisorANGLE", "instanceColor", 1, 0, <<>>),
      Cmd("drawArraysInstancedANGLE", "TRIANGLE_FAN", vertexCount, count, <<>>),
      Cmd("vertexAttribDivisorANGLE", "instancePosition", 0, 0, <<>>),
      Cmd("vertexAttribDivisorANGLE", "instanceSize", 0, 0, <<>>),
      Cmd("vertexAttribDivisorANGLE", "instanceColor", 0, 0, <<>>)>>

\* the batched path (lines 286-302)
InstancedCmds(count, vertexCount) ==
    <<Cmd("vertexAttribDivisorANGLE", "instancePosition", 1, 0, <<>>),
      Cmd("vertexAttribDivisorANGLE", "instanceSize", 1, 0, <<>>),
      Cmd("vertexAttribDivisorANGLE", "instanceColor", 1, 0, <<>>),
      Cmd("drawArraysInstancedANGLE", "TRIANGLE_FAN", vertexCount, count, <<>>),
      Cmd("vertexAttribDivisorANGLE", "instancePosition", 0, 0, <<>>),
      Cmd("vertexAttribDivisorANGLE", "instanceSize", 0, 0, <<>>),
      Cmd("vertexAttribDivisorANGLE", "instanceColor", 0, 0, <<>>)>>

\* a round that takes the position at offset i instead of 2 * i
FallbackStepOffset(positions, sizes, colors, i, vertexCount) ==
    <<Cmd("bindBuffer", "instancePositionBuffer", 0, 0, <<>>),
      Cmd("bufferData", "", 0, 0, SubSeq(positions, i, i + 1)),
      Cmd("bindBuffer", "instanceSizeBuffer", 0, 0, <<>>),
      Cmd("bufferData", "", 0, 0, SubSeq(sizes, i, i)),
      Cmd("bindBuffer", "instanceColorBuffer", 0, 0, <<>>),
      Cmd("bufferData", "", 0, 0, SubSeq(colors, 4 * i - 3, 4 * i)),
      Cmd("drawArrays", "TRIANGLE_FAN", vertexCount, 0, <<>>)>>

\* a round that sets the resolution again for its particle
FallbackStepWithUniform(positions, sizes, colors, i, vertexCount) ==
    <<Cmd("uniform2f", "resolution", Canvas.width, Canvas.height, <<>>),
      Cmd("bindBuffer", "instancePositionBuffer", 0, 0, <<>>),
      Cmd("bufferData", "", 0, 0, SubSeq(positions, 2 * i - 1, 2 * i)),
      Cmd("bindBuffer", "instanceSizeBuffer", 0, 0, <<>>),
      Cmd("bufferData", "", 0, 0, SubSeq(sizes, i, i)),
      Cmd("bindBuffer", "instanceColorBuffer", 0, 0, <<>>),
      Cmd("bufferData", "", 0, 0, SubSeq(colors, 4 * i - 3, 4 * i)),
      Cmd("drawArrays", "TRIANGLE_FAN", vertexCount, 0, <<>>)>>

\* one round of the fallback loop (lines 307-320), i counted from 1
FallbackStep(positions, sizes, colors, i, vertexCount) ==
    <<Cmd("bindBuffer", "instancePositionBuffer", 0, 0, <<>>),
      Cmd("bufferData", "", 0, 0, SubSeq(positions, 2 * i - 1, 2 * i)),
      Cmd("bindBuffer", "instanceSizeBuffer", 0, 0, <<>>),
      Cmd("bufferData", "", 0, 0, SubSeq(sizes, i, i)),
      Cmd("bindBuffer", "instanceColorBuffer", 0, 0, <<>>),
      Cmd("bufferData", "", 0, 0, SubSeq(colors, 4 * i - 3, 4 * i)),
      Cmd("drawArrays", "TRIANGLE_FAN", vertexCount, 0, <<>>)>>

\* a loop that stops one round early
RECURSIVE FallbackCmdsOffByOne(_, _, _, _, _)
FallbackCmdsOffByOne(positions, sizes, colors, i, vertexCount) ==
    IF i >= Len(sizes) THEN <<>>
    ELSE FallbackStep(positions, sizes, colors, i, vertexCount)
         \o FallbackCmdsOffByOne(positions, sizes, colors, i + 1, vertexCount)

\* the fallback loop from round i on
RECURSIVE FallbackCmds(_, _, _, _, _)
FallbackCmds(positions, sizes, colors, i, vertexCount) ==
    IF i > Len(sizes) THEN <<>>
    ELSE FallbackStep(positions, sizes, colors, i, vertexCount)
         \o FallbackCmds(positions, sizes, colors, i + 1, vertexCount)

\* the clean-up (lines 325-328)
CleanupCmds ==
    <<Cmd("disableVertexAttribArray", "vertexPosition", 0, 0, <<>>),
      Cmd("disableVertexAttribArray", "instancePosition", 0, 0, <<>>),
      Cmd("disableVertexAttribArray", "instanceSize", 0, 0, <<>>),
      Cmd("disableVertexAttribArray", "instanceColor", 0, 0, <<>>)>>

\* a path chosen from what the browser offers at the time of the call
UsesInstancingNow == env.extAvailable

\* the path drawParticles takes: the extension object stored at construction
UsesInstancing == instancedArraysExt

\* a call that keeps the resolution it set last and writes the uniform only
\* when the canvas size differs from it
CmdsForCachedResolution(positions, sizes, colors) ==
    (IF ctx.resolution = <<Canvas.width, Canvas.height>>
     THEN <<Head(SetupCmds(positions, sizes, colors))>>
             \o Tail(Tail(SetupCmds(positions, sizes, colors)))
     ELSE SetupCmds(positions, sizes, colors))
        \o (IF UsesInstancing THEN InstancedCmds(Len(sizes), circleVertexCount)
            ELSE FallbackCmds(positions, sizes, colors, 1, circleVertexCount))
        \o CleanupCmds

\* every command of a drawParticles call that reaches the context
\* the commands of lines 225-328 for the filled arrays
CmdsFor(positions, sizes, colors) ==
    SetupCmds(positions, sizes, colors)
        \o (IF UsesInstancing THEN InstancedCmds(Len(sizes), circleVertexCount)
            ELSE FallbackCmds(positions, sizes, colors, 1, circleVertexCount))
        \o CleanupCmds

DrawParticlesCmds(particles) ==
    CmdsFor(Positions(particles), Sizes(particles), Colors(particles))

\* a call that reads each record only when its turn to be drawn comes: the
\* records before the first bad one are sent before the call raises
drawParticlesRunLazy(particles) ==
    IF Len(particles) = 0
    THEN [raised |-> FALSE, cmds |-> <<>>, particles |-> particles]
    ELSE IF ~gl \/ ~programInfo
    THEN [raised |-> TRUE, cmds |-> <<>>, particles |-> particles]
    ELSE IF FillRaises(particles)
    THEN LET bad == Min({i \in 1..Len(particles) :
                          particles[i].null \/ parseColorThrows(particles[i].color)})
         IN  [raised |-> TRUE,
              cmds |-> IF bad = 1 THEN <<>>
                       ELSE DrawParticlesCmds(SubSeq(particles, 1, bad - 1)),
              particles |-> particles]
    ELSE [raised |-> FALSE, cmds |-> DrawParticlesCmds(particles), particles |-> particles]

\* a call that goes on without a program instead of raising at line 225
drawParticlesRunNoProgram(particles) ==
    IF Len(particles) = 0
    THEN [raised |-> FALSE, cmds |-> <<>>, particles |-> particles]
    ELSE IF FillRaises(particles) \/ ~gl
    THEN [raised |-> TRUE, cmds |-> <<>>, particles |-> particles]
    ELSE [raised |-> FALSE, cmds |-> DrawParticlesCmds(particles), particles |-> particles]

\* a call that puts the list in reverse order before it fills the arrays
drawParticlesRunReversing(particles) ==
    LET reversed == [i \in 1..Len(particles) |-> particles[Len(particles) + 1 - i]]
    IN  IF Len(particles) = 0
        THEN [raised |-> FALSE, cmds |-> <<>>, particles |-> particles]
        ELSE IF FillRaises(particles) \/ ~gl \/ ~programInfo
        THEN [raised |-> TRUE, cmds |-> <<>>, particles |-> reversed]
        ELSE [raised |-> FALSE, cmds |-> DrawParticlesCmds(reversed),
              particles |-> reversed]

\* a call that has no early return for an empty list
drawParticlesRunNoEmptyCheck(particles) ==
    IF FillRaises(particles) \/ ~gl \/ ~programInfo
    THEN [raised |-> TRUE, cmds |-> <<>>, particles |-> particles]
    ELSE [raised |-> FALSE, cmds |-> DrawParticlesCmds(particles), particles |-> particles]

\* what a drawParticles call on a non-null list does: whether it raises, and
\* the commands it sends.  An empty list returns at once.  A bad record
\* raises while the arrays are filled, and a null this.gl or an undefined
\* this.programInfo raises at line 225: in each case before the first command.
\* The call reads the records of the list and writes none of them: the list
\* it leaves is the list it was given.
drawParticlesRun(particles) ==
    IF Len(particles) = 0
    THEN [raised |-> FALSE, cmds |-> <<>>, particles |-> particles]
    ELSE IF FillRaises(particles) \/ ~gl \/ ~programInfo
    THEN [raised |-> TRUE, cmds |-> <<>>, particles |-> particles]
    ELSE [raised |-> FALSE, cmds |-> DrawParticlesCmds(particles), particles |-> particles]

\* drawParticles(particles), particles a list or null
DrawParticles ==
    /\ UNCHANGED otherVars
    /\ phase = "ready"
    /\ UNCHANGED <<phase, env, gl, instancedArraysExt, programInfo,
                   circleVertexCount, pcColor, pcResult,
                   vsInput, glPosition>>
    /\ \/ /\ lastCall' = Call("drawParticles", <<>>, TRUE, FALSE, <<>>)
          /\ UNCHANGED ctx
       \/ \E particles \in ParticleLists :
             \E run \in {drawParticlesRun(particles)} :
                 /\ lastCall' = [Call("drawParticles", particles, FALSE, run.raised, run.cmds)
                                    EXCEPT !.argAfter = run.particles]
                 /\ ctx' = IF run.cmds = <<>> THEN ctx
                           ELSE GLRun(StartOperation(ctx), run.cmds, 1, env.outOfRange)

----------------------------------------------------------------------------
(* OptimizedWebGLRenderer.fillCircle *)

\* the positions fillCircle computes: the centre, then x + radius * cos(theta)
\* and y + radius * sin(theta) for i = 0..12, kept as symbols
FillCirclePositions(x, y, radius) ==
    [k \in 1..(2 * (Segments + 2)) |->
        IF k = 1 THEN Num(x)
        ELSE IF k = 2 THEN Num(y)
        ELSE IF k % 2 = 1 THEN <<"ring", x, radius, MathCos((k - 3) \div 2, Segments)>>
        ELSE <<"ring", y, radius, MathSin((k - 4) \div 2, Segments)>>]

\* a fillCircle that uploads its positions into the template buffer
FillCircleUploadIntoTemplate(x, y, radius) ==
    <<Cmd("bindBuffer", "circleBuffer", 0, 0, <<>>),
      Cmd("bufferData", "", 0, 0, FillCirclePositions(x, y, radius))>>

\* lines 336-357: a new buffer, bound and filled
FillCircleUpload(x, y, radius) ==
    <<Cmd("createBuffer", "positionBuffer", 0, 0, <<>>),
      Cmd("bindBuffer", "positionBuffer", 0, 0, <<>>),
      Cmd("bufferData", "", 0, 0, FillCirclePositions(x, y, radius))>>

\* lines 360-391.  programInfo.uniformLocations has no color entry, so
\* uniform4fv is given no location and sets nothing.
FillCircleDraw(rgba) ==
    <<Cmd("useProgram", "particle", 0, 0, <<>>),
      Cmd("enableVertexAttribArray", "vertexPosition", 0, 0, <<>>),
      Cmd("vertexAttribPointer", "vertexPosition", 2, 0, <<>>),
      Cmd("uniform2f", "resolution", Canvas.width, Canvas.height, <<>>),
      Cmd("uniform4fv", "", 0, 0, rgba),
      Cmd("drawArrays", "TRIANGLE_FAN", Segments + 2, 0, <<>>),
      Cmd("disableVertexAttribArray", "vertexPosition", 0, 0, <<>>),
      Cmd("deleteBuffer", "positionBuffer", 0, 0, <<>>)>>

\* what a fillCircle call does: parseColor raises on a colour that is no
\* string and createBuffer on a null this.gl, both before any command;
\* an undefined this.programInfo raises at line 360, after the upload
fillCircleRun(x, y, radius, color) ==
    IF parseColorThrows(color) \/ ~gl THEN [raised |-> TRUE, cmds |-> <<>>]
    ELSE IF ~programInfo
    THEN [raised |-> TRUE, cmds |-> FillCircleUpload(x, y, radius)]
    ELSE [raised |-> FALSE,
          cmds |-> FillCircleUpload(x, y, radius) \o FillCircleDraw(parseColor(color.s))]

\* the colours fillCircle is called with
FillColors == {JSString(White), Undefined}

\* fillCircle(1, 0, 1, color)
FillCircle ==
    /\ UNCHANGED otherVars
    /\ phase = "ready"
    /\ UNCHANGED <<phase, env, gl, instancedArraysExt, programInfo,
                   circleVertexCount, pcColor, pcResult, vsInput, glPosition>>
    /\ \E color \in FillColors :
          \E run \in {fillCircleRun(1, 0, 1, color)} :
             /\ lastCall' = Call("fillCircle", <<>>, FALSE, run.raised, run.cmds)
             /\ ctx' = IF run.cmds = <<>> THEN ctx
                       ELSE GLRun(StartOperation(ctx), run.cmds, 1, env.outOfRange)

----------------------------------------------------------------------------
(* The vertex shader (vsSource), on exact numbers *)

\* a main() that maps pixels to clip space without turning the y axis
vertexShaderNoFlip(aVertexPosition, aInstanceSize, aInstancePosition, uResolution) ==
    LET position == <<Add(Mul(aVertexPosition[1], aInstanceSize), aInstancePosition[1]),
                      Add(Mul(aVertexPosition[2], aInstanceSize), aInstancePosition[2])>>
    IN  <<Sub(Mul(Div(position[1], uResolution[1]), Num(2)), Num(1)),
          Sub(Mul(Div(position[2], uResolution[2]), Num(2)), Num(1))>>

\* main(): position = aVertexPosition * aInstanceSize + aInstancePosition,
\* clipSpace = (position / uResolution) * 2.0 - 1.0, and gl_Position.xy =
\* clipSpace * vec2(1, -1)
vertexShader(aVertexPosition, aInstanceSize, aInstancePosition, uResolution) ==
    LET position  == <<Add(Mul(aVertexPosition[1], aInstanceSize), aInstancePosition[1]),
                       Add(Mul(aVertexPosition[2], aInstanceSize), aInstancePosition[2])>>
        clipSpace == <<Sub(Mul(Div(position[1], uResolution[1]), Num(2)), Num(1)),
                       Sub(Mul(Div(position[2], uResolution[2]), Num(2)), Num(1))>>
    IN  <<Mul(clipSpace[1], Num(1)), Mul(clipSpace[2], Num(-1))>>

NoVertex == <<>>

\* template vertices with rational coordinates: the centre, the four ring
\* vertices on the axes, and two points off the ring
VertexSamples ==
    {<<Num(0), Num(0)>>, <<Num(1), Num(0)>>, <<Num(0), Num(1)>>,
     <<Num(-1), Num(0)>>, <<Num(0), Num(-1)>>, <<Rat(1, 2), Rat(-1, 2)>>,
     <<Rat(3, 5), Rat(4, 5)>>}

SizeSamples == {Num(0), Num(1), Num(5), Rat(3, 2)}

PositionSamples ==
    {<<Num(0), Num(0)>>, <<Num(4), Num(2)>>, <<Num(2), Num(4)>>,
     <<Num(10), Num(10)>>, <<Num(-3), Num(1)>>, <<Rat(1, 2), Num(3)>>,
     <<Num(3), Num(2)>>}

ResolutionSamples == {<<Num(4), Num(2)>>, <<Num(2), Num(4)>>, <<Num(800), Num(600)>>}

VertexInputs ==
    [aVertexPosition : VertexSamples, aInstanceSize : SizeSamples,
     aInstancePosition : PositionSamples, uResolution : ResolutionSamples]

\* the shader run on the vertex chosen initially
VertexShaderMain ==
    /\ UNCHANGED otherVars
    /\ glPosition = NoResult
    /\ vsInput # NoVertex
    /\ glPosition' = vertexShader(vsInput.aVertexPosition, vsInput.aInstanceSize,
                                  vsInput.aInstancePosition, vsInput.uResolution)
    /\ UNCHANGED <<phase, env, gl, instancedArraysExt, programInfo,
                   circleVertexCount, ctx, lastCall, pcColor, pcResult, vsInput>>

----------------------------------------------------------------------------
(* WebGLDraw (webgl-draw.js) *)

\* the canvas of the WebGLDraw object
DrawCanvas == [width |-> 4, height |-> 4]

\* most points of a polygon
MaxPoints == 3

\* Math.sqrt of a number whose numerator and denominator are squares (the
\* points below give nothing else); the square root of NaN is NaN
ISqrt(n) == CHOOSE r \in 0..n : r * r = n

Sqrt(a) == IF IsNaN(a) THEN NaN ELSE Rat(ISqrt(a[1]), ISqrt(a[2]))

\* Math.min
MathMin(a, b) == IF a < b THEN a ELSE b

\* (x / canvas.width) * 2 - 1
ToGLX(x, canvas) == Sub(Mul(Div(x, Num(canvas.width)), Num(2)), Num(1))

\* -((y / canvas.height) * 2 - 1)
ToGLY(y, canvas) == Neg(Sub(Mul(Div(y, Num(canvas.height)), Num(2)), Num(1)))

\* the browsers a WebGLDraw is constructed in: with or without WebGL, the
\* shaders built, the link failed, or a shader that fails to compile (null)
\* on which attachShader raises or after which the link fails
DrawEnvironments ==
    {e \in [glSupported : BOOLEAN,
            shaders : {"ok", "linkFails", "compileFailsThrows", "compileFailsLinkFails"}] :
        ~e.glSupported => e.shaders = "ok"}

\* the record of a call: its name and arguments, this.color when it was
\* made, whether it raised, what it wrote to the console, what it sent
NoDrawCall ==
    [op |-> "none", points |-> <<>>, fill |-> FALSE, lineWidth |-> 0,
     colorBefore |-> <<>>, raised |-> FALSE, logged |-> "", cmds |-> <<>>]

DrawCall(op, points, fill, lineWidth, color, run) ==
    [op |-> op, points |-> points, fill |-> fill, lineWidth |-> lineWidth,
     colorBefore |-> color, raised |-> run.raised, logged |-> run.logged,
     cmds |-> run.cmds]

\* the drawing colours of the demo: red, and a half-transparent blue
DrawColors == {<<Num(1), Num(0), Num(0), Num(1)>>,
               <<Num(0), Num(0), Num(1), Rat(1, 2)>>}

\* the four corners of the strip line() draws from (x1, y1) to (x2, y2);
\* a line of length 0 divides 0 by 0 and every corner is NaN
LinePositions(x1, y1, x2, y2, lineWidth, canvas) ==
    LET glX1 == ToGLX(Num(x1), canvas)
        glY1 == ToGLY(Num(y1), canvas)
        glX2 == ToGLX(Num(x2), canvas)
        glY2 == ToGLY(Num(y2), canvas)
        dirX == Sub(glX2, glX1)
        dirY == Sub(glY2, glY1)
        length == Sqrt(Add(Mul(dirX, dirX), Mul(dirY, dirY)))
        normDirX == Div(dirX, length)
        normDirY == Div(dirY, length)
        perpX == Neg(normDirY)
        perpY == normDirX
        halfWidth == Mul(Div(Rat(lineWidth, 2),
                             Num(MathMin(canvas.width, canvas.height))), Num(2))
    IN  <<Add(glX1, Mul(perpX, halfWidth)), Add(glY1, Mul(perpY, halfWidth)),
          Sub(glX1, Mul(perpX, halfWidth)), Sub(glY1, Mul(perpY, halfWidth)),
          Add(glX2, Mul(perpX, halfWidth)), Add(glY2, Mul(perpY, halfWidth)),
          Sub(glX2, Mul(perpX, halfWidth)), Sub(glY2, Mul(perpY, halfWidth))>>

\* the commands of rect, line and the filled polygon after the positions are
\* computed: upload, program, attribute, matrices, colour, draw
ShapeCmds(positions, color, mode, count) ==
    <<Cmd("bindBuffer", "positionBuffer", 0, 0, <<>>),
      Cmd("bufferData", "", 0, 0, positions),
      Cmd("useProgram", "draw", 0, 0, <<>>),
      Cmd("vertexAttribPointer", "vertexPosition", 2, 0, <<>>),
      Cmd("enableVertexAttribArray", "vertexPosition", 0, 0, <<>>),
      Cmd("uniformMatrix4fv", "projectionMatrix", 0, 0, <<>>),
      Cmd("uniformMatrix4fv", "modelViewMatrix", 0, 0, <<>>),
      Cmd("uniform4fv", "color", 0, 0, color),
      Cmd("drawArrays", mode, count, 0, <<>>)>>

\* a shape sent through an object d: this.gl.bindBuffer raises when this.gl
\* is null, and this.programInfo.program raises, after the upload, when the
\* link failed
ShapeRun(d, positions, mode, count) ==
    IF ~d.gl THEN [raised |-> TRUE, logged |-> "", cmds |-> <<>>]
    ELSE IF ~d.programInfo
    THEN [raised |-> TRUE, logged |-> "",
          cmds |-> SubSeq(ShapeCmds(positions, d.color, mode, count), 1, 2)]
    ELSE [raised |-> FALSE, logged |-> "",
          cmds |-> ShapeCmds(positions, d.color, mode, count)]

\* line(x1, y1, x2, y2, lineWidth)
lineRun(d, x1, y1, x2, y2, lineWidth) ==
    ShapeRun(d, LinePositions(x1, y1, x2, y2, lineWidth, DrawCanvas), "TRIANGLE_STRIP", 4)

\* an outline that is left open: no line from the last point to the first
RECURSIVE OutlineRunOpen(_, _, _, _)
OutlineRunOpen(d, points, lineWidth, i) ==
    IF i > Len(points) - 1 THEN [raised |-> FALSE, logged |-> "", cmds |-> <<>>]
    ELSE LET p1 == points[i]
             p2 == points[(i % Len(points)) + 1]
             first == lineRun(d, p1.x, p1.y, p2.x, p2.y, lineWidth)
             rest == OutlineRunOpen(d, points, lineWidth, i + 1)
         IN  IF first.raised THEN first
             ELSE [raised |-> rest.raised, logged |-> "", cmds |-> first.cmds \o rest.cmds]

\* the loop of the outline (lines 612-616) from round i on: rounds are
\* counted from 1 here, so the line of round i goes from points[i] to
\* points[(i mod n) + 1]; a line that raises ends the loop
RECURSIVE OutlineRun(_, _, _, _)
OutlineRun(d, points, lineWidth, i) ==
    IF i > Len(points) THEN [raised |-> FALSE, logged |-> "", cmds |-> <<>>]
    ELSE LET p1 == points[i]
             p2 == points[(i % Len(points)) + 1]
             first == lineRun(d, p1.x, p1.y, p2.x, p2.y, lineWidth)
             rest == OutlineRun(d, points, lineWidth, i + 1)
         IN  IF first.raised THEN first
             ELSE [raised |-> rest.raised, logged |-> "", cmds |-> first.cmds \o rest.cmds]

\* sum of the x (or y) of the points from i on
RECURSIVE SumOf(_, _, _)
SumOf(points, F(_), i) ==
    IF i > Len(points) THEN 0 ELSE F(points[i]) + SumOf(points, F, i + 1)

XOf(p) == p.x
YOf(p) == p.y

\* the fan of a filled polygon: the centre, the points, the first point again
FanPositions(points, canvas) ==
    LET n == Len(points)
        centerX == Rat(SumOf(points, XOf, 1), n)
        centerY == Rat(SumOf(points, YOf, 1), n)
    IN  [k \in 1..(2 * (n + 2)) |->
            IF k = 1 THEN ToGLX(centerX, canvas)
            ELSE IF k = 2 THEN ToGLY(centerY, canvas)
            ELSE IF k % 2 = 1 THEN ToGLX(Num(points[(((k - 3) \div 2) % n) + 1].x), canvas)
            ELSE ToGLY(Num(points[(((k - 4) \div 2) % n) + 1].y), canvas)]

\* a polygon that goes on with fewer than 3 points
polygonRunNoCheck(d, points, fill, lineWidth) ==
    IF Len(points) = 0 THEN [raised |-> FALSE, logged |-> "", cmds |-> <<>>]
    ELSE IF fill
    THEN ShapeRun(d, FanPositions(points, DrawCanvas), "TRIANGLE_FAN", Len(points) + 2)
    ELSE OutlineRun(d, points, lineWidth, 1)

\* a polygon whose outline is left open
polygonRunOpen(d, points, fill, lineWidth) ==
    IF Len(points) < 3
    THEN [raised |-> FALSE, logged |-> "Polygon requires at least 3 points", cmds |-> <<>>]
    ELSE IF fill
    THEN ShapeRun(d, FanPositions(points, DrawCanvas), "TRIANGLE_FAN", Len(points) + 2)
    ELSE OutlineRunOpen(d, points, lineWidth, 1)

\* polygon(points, fill, lineWidth)
polygonRun(d, points, fill, lineWidth) ==
    IF Len(points) < 3
    THEN [raised |-> FALSE, logged |-> "Polygon requires at least 3 points", cmds |-> <<>>]
    ELSE IF fill
    THEN ShapeRun(d, FanPositions(points, DrawCanvas), "TRIANGLE_FAN", Len(points) + 2)
    ELSE OutlineRun(d, points, lineWidth, 1)

\* the points polygons are made of: the corners of a triangle with sides of
\* the lengths 3, 4 and 5
Corners == <<[x |-> 0, y |-> 0], [x |-> 3, y |-> 0], [x |-> 0, y |-> 4]>>

PointPool == {Corners[i] : i \in 1..3}

\* the lists of 0..MaxPoints points that walk round the triangle from any
\* corner, forwards (step 1) or backwards (step 2), or stay on one corner
\* (step 0)
PointLists ==
    {[i \in 1..n |-> Corners[((start - 1 + (i - 1) * step) % 3) + 1]] :
        n \in 0..MaxPoints, start \in 1..3, step \in 0..2}

LineWidths == {1, 2}

NoDraw ==
    [phase |-> "new", gl |-> FALSE, programInfo |-> FALSE, color |-> <<>>,
     call |-> NoDrawCall]

\* new WebGLDraw(canvas): without a context the constructor returns before
\* setColor, and this.color stays undefined
DrawConstructor ==
    /\ draw.phase = "new"
    /\ UNCHANGED <<rendererVars, wrapper, app, pt, wr>>
    /\ \E e \in DrawEnvironments :
          draw' = IF ~e.glSupported
                  THEN [draw EXCEPT !.phase = "ready",
                                    !.call = [NoDrawCall EXCEPT !.op = "constructor",
                                              !.logged = "WebGL not supported"]]
                  ELSE IF e.shaders = "compileFailsThrows"
                  THEN [draw EXCEPT !.phase = "threw",
                                    !.call = [NoDrawCall EXCEPT !.op = "constructor",
                                              !.raised = TRUE]]
                  ELSE [draw EXCEPT !.phase = "ready",
                                    !.gl = TRUE,
                                    !.programInfo = (e.shaders = "ok"),
                                    !.color = <<Num(0), Num(0), Num(0), Num(1)>>,
                                    !.call = [NoDrawCall EXCEPT !.op = "constructor"]]

\* setColor(r, g, b, a)
SetColor ==
    /\ draw.phase = "ready"
    /\ UNCHANGED <<rendererVars, wrapper, app, pt, wr>>
    /\ \E c \in DrawColors :
          draw' = [draw EXCEPT !.color = c,
                               !.call = [NoDrawCall EXCEPT !.op = "setColor",
                                                           !.colorBefore = draw.color]]

\* line(x1, y1, x2, y2, lineWidth) between two points of the pool
Line ==
    /\ draw.phase = "ready"
    /\ UNCHANGED <<rendererVars, wrapper, app, pt, wr>>
    /\ \E p1 \in PointPool, p2 \in PointPool, w \in LineWidths :
          \E run \in {lineRun(draw, p1.x, p1.y, p2.x, p2.y, w)} :
              draw' = [draw EXCEPT !.call = DrawCall("line", <<p1, p2>>, FALSE, w,
                                                      draw.color, run)]

\* polygon(points, fill, lineWidth)
Polygon ==
    /\ draw.phase = "ready"
    /\ UNCHANGED <<rendererVars, wrapper, app, pt, wr>>
    /\ \E points \in PointLists, fill \in BOOLEAN, w \in LineWidths :
          \E run \in {polygonRun(draw, points, fill, w)} :
              draw' = [draw EXCEPT !.call = DrawCall("polygon", points, fill, w,
                                                      draw.color, run)]

----------------------------------------------------------------------------
(* WebGLParticleRendererOptimized (webgl-particle-renderer-optimized.js) *)

\* `hsl(${h}, 70%, 50%)`, the colour string the Particle constructor builds
ParticleColor(h) ==
    HslPrefix \o h \o <<",", " ", "7", "0", "%", ",", " ", "5", "0", "%", ")">>

\* the particles initParticles makes: positions inside the canvas, a size,
\* and the constructor's colour for a whole and for a fractional hue
NewParticles ==
    {Particle(1, 0, 1, JSString(ParticleColor(<<"6", "0">>))),
     Particle(2, 1, 2, JSString(ParticleColor(<<"1", "2", ".", "5">>)))}

\* one call the wrapper makes on its renderer
SubCall(op, arg) == [op |-> op, arg |-> arg]

\* the record of a render(): the calls made on the renderer in order, all
\* commands they sent, and whether render() raised
NoFrame == [calls |-> <<>>, cmds |-> <<>>, raised |-> FALSE]

\* this.particles, the method called last, the number of render() calls so
\* far and the record of the last one
NoWrapper == [particles |-> <<>>, op |-> "constructor", frames |-> 0, frame |-> NoFrame]

\* frames rendered in one run of the model
MaxFrames == 2

\* initParticles(count): a new list of count new particles
InitParticles ==
    /\ phase = "ready"
    /\ UNCHANGED <<rendererVars, draw, app, pt, wr>>
    /\ \E count \in 0..MaxParticles :
          \E list \in [1..count -> NewParticles] :
              wrapper' = [wrapper EXCEPT !.particles = list, !.op = "initParticles"]

\* a render() that draws before it clears
renderRunDrawFirst(particles) ==
    IF ~gl
    THEN [calls |-> <<SubCall("drawParticles", particles)>>, raised |-> Len(particles) > 0,
          clear |-> <<>>, draw |-> [raised |-> Len(particles) > 0, cmds |-> <<>>,
                                    particles |-> particles]]
    ELSE [calls |-> <<SubCall("drawParticles", particles), SubCall("clear", <<>>)>>,
          raised |-> drawParticlesRun(particles).raised,
          clear |-> drawParticlesRun(particles).cmds,
          draw |-> [raised |-> drawParticlesRun(particles).raised,
                    cmds |-> IF drawParticlesRun(particles).raised THEN <<>> ELSE ClearCmds,
                    particles |-> particles]]

\* render(): this.clear(), which raises without a context (this.gl.viewport
\* of the renderer), then this.renderer.drawParticles(this.particles); the
\* statistics that follow send nothing
renderRun(particles) ==
    IF ~gl
    THEN [calls |-> <<SubCall("clear", <<>>)>>, raised |-> TRUE,
          clear |-> <<>>, draw |-> [raised |-> FALSE, cmds |-> <<>>,
                                    particles |-> particles]]
    ELSE [calls |-> <<SubCall("clear", <<>>), SubCall("drawParticles", particles)>>,
          raised |-> drawParticlesRun(particles).raised,
          clear |-> ClearCmds,
          draw |-> drawParticlesRun(particles)]

Render ==
    /\ phase = "ready"
    /\ wrapper.frames < MaxFrames
    /\ UNCHANGED <<phase, env, gl, instancedArraysExt, programInfo,
                   circleVertexCount, pcColor, pcResult, vsInput, glPosition>>
    /\ UNCHANGED <<draw, app, pt, wr>>
    /\ \E run \in {renderRun(wrapper.particles)} :
          /\ wrapper' = [particles |-> run.draw.particles,
                         op |-> "render",
                         frames |-> wrapper.frames + 1,
                         frame |-> [calls |-> run.calls,
                                    cmds |-> run.clear \o run.draw.cmds,
                                    raised |-> run.raised]]
          /\ ctx' = IF run.clear \o run.draw.cmds = <<>> THEN ctx
                    ELSE GLRun(StartOperation(GLRun(StartOperation(ctx), run.clear, 1,
                                                    env.outOfRange)),
                               run.draw.cmds, 1, env.outOfRange)
          /\ lastCall' = IF Len(run.calls) = 1
                         THEN Call("clear", <<>>, FALSE, TRUE, <<>>)
                         ELSE [Call("drawParticles", wrapper.particles, FALSE,
                                    run.draw.raised, run.draw.cmds)
                                  EXCEPT !.argAfter = run.draw.particles,
                                         !.afterClear = TRUE]

----------------------------------------------------------------------------
(* The particle-simulation page (the DOMContentLoaded handler) *)

\* the counter value at which animate() calls updatePerformanceComparison
UpdateEvery == 30

\* frames animated in one run of the model of the page's controls
MaxTicks == 3

\* values the user gives the particle-count slider; the page loads with the
\* first
SliderValues == {1, 2}

InitialSliderValue == 1

\* stats.renderTime of a render(), in milliseconds: every one takes 1
RenderTime == 1

NoShown == [mode |-> -1, frames |-> 0, avg2D |-> NaN, avgWebGL |-> NaN]

\* requestAnimationFrame(animate): one more callback is pending and the
\* handle returned is stored in animationId.  A handle is unique, so the
\* model keeps what it refers to instead of its number: `current' says that
\* the callback animationId refers to is still pending, and `orphans' counts
\* pending callbacks whose handle has been overwritten
Request(a) ==
    [a EXCEPT !.animationId = "handle",
              !.pending = [current |-> TRUE,
                           orphans |-> a.pending.orphans +
                                          (IF a.pending.current THEN 1 ELSE 0)]]

\* if (animationId) { cancelAnimationFrame(animationId); animationId = null; }
\* cancelling the handle of a callback that has run does nothing
Cancel(a) ==
    IF a.animationId = "null" THEN a
    ELSE [a EXCEPT !.animationId = "null", !.pending.current = FALSE]

\* pending animation-frame callbacks
Pending(a) == a.pending.orphans + (IF a.pending.current THEN 1 ELSE 0)

\* the state of the page after the DOMContentLoaded handler: both renderers
\* made, the variables initialised, initParticles() called.  gl says
\* whether the WebGL renderer got a context; frameLimit is the number of
\* frames after which the model stops animating
AppLoaded(glOk, limit) ==
    [gl |-> glOk,
     frameLimit |-> limit,
     isRunning |-> FALSE,
     animationId |-> "null",
     pending |-> [current |-> FALSE, orphans |-> 0],
     renderingMode |-> 0,
     totalFrames |-> 0,
     totalRenderTime2D |-> 0,
     totalRenderTimeWebGL |-> 0,
     sliderValue |-> InitialSliderValue,
     particleCount |-> InitialSliderValue,
     particles2d |-> InitialSliderValue,
     particlesWebGL |-> InitialSliderValue,
     shown |-> NoShown,
     last |-> "load",
     raised |-> FALSE]

\* updatePerformanceComparison(): the averages the page shows for the
\* current mode
updatePerformanceComparison(a) ==
    [mode |-> a.renderingMode,
     frames |-> a.totalFrames,
     avg2D |-> IF a.renderingMode \in {0, 2}
               THEN Rat(a.totalRenderTime2D, a.totalFrames) ELSE NaN,
     avgWebGL |-> IF a.renderingMode \in {1, 2}
                  THEN Rat(a.totalRenderTimeWebGL, a.totalFrames) ELSE NaN]

\* animate() up to the WebGL renderer: the 2D renderer renders, and its time
\* is added, in the modes 0 and 2
AnimateCanvas2D(a) ==
    IF a.renderingMode \in {0, 2}
    THEN [a EXCEPT !.totalRenderTime2D = @ + RenderTime]
    ELSE a

\* animate() from the frame counter on: count the frame, show the
\* comparison every UpdateEvery frames, ask for the next frame while running
AnimateEnd(a) ==
    LET counted  == [a EXCEPT !.totalFrames = @ + 1]
        compared == IF counted.totalFrames % UpdateEvery = 0
                    THEN [counted EXCEPT !.shown = updatePerformanceComparison(counted)]
                    ELSE counted
    IN  IF compared.isRunning THEN Request(compared) ELSE compared

\* animate().  rendererWebGL.render() and rendererWebGL.clear() both start
\* with this.gl.viewport of the renderer, which raises without a context:
\* the handler ends there, after the 2D renderer's part
animate(a) ==
    IF ~a.gl
    THEN [AnimateCanvas2D(a) EXCEPT !.raised = TRUE]
    ELSE AnimateEnd(IF a.renderingMode \in {1, 2}
                    THEN [AnimateCanvas2D(a) EXCEPT !.totalRenderTimeWebGL = @ + RenderTime]
                    ELSE AnimateCanvas2D(a))

\* the browser runs one pending animation-frame callback.  The model
\* animates up to frameLimit frames (counted, or rendered by the 2D
\* renderer before the handler raised) and up to the first comparison shown;
\* Reset removes the comparison
Tick ==
    /\ Pending(app) > 0
    /\ app.totalFrames < app.frameLimit
    /\ app.totalRenderTime2D < app.frameLimit * RenderTime
    /\ app.shown = NoShown
    /\ UNCHANGED <<rendererVars, draw, wrapper, pt, wr>>
    /\ \E which \in {"current", "orphan"} :
          /\ which = "current" => app.pending.current
          /\ which = "orphan" => app.pending.orphans > 0
          /\ app' = animate([app EXCEPT
                                !.pending = IF which = "current"
                                            THEN [@ EXCEPT !.current = FALSE]
                                            ELSE [@ EXCEPT !.orphans = @ - 1],
                                !.last = "tick",
                                !.raised = FALSE])

\* a Start handler that asks for a frame on every click
startAlways(a) == Request([a EXCEPT !.isRunning = TRUE])

\* the click handler of startBtn
start(a) == IF ~a.isRunning THEN Request([a EXCEPT !.isRunning = TRUE]) ELSE a

Start ==
    /\ UNCHANGED <<rendererVars, draw, wrapper, pt, wr>>
    /\ app' = start([app EXCEPT !.last = "start", !.raised = FALSE])

\* the click handler of stopBtn
stop(a) == Cancel([a EXCEPT !.isRunning = FALSE])

Stop ==
    /\ UNCHANGED <<rendererVars, draw, wrapper, pt, wr>>
    /\ app' = stop([app EXCEPT !.last = "stop", !.raised = FALSE])

\* the click handlers of the three mode buttons
setMode(a, mode) ==
    IF a.isRunning
    THEN [a EXCEPT !.renderingMode = mode,
                   !.totalFrames = 0,
                   !.totalRenderTime2D = 0,
                   !.totalRenderTimeWebGL = 0]
    ELSE [a EXCEPT !.renderingMode = mode]

ModeButton ==
    /\ UNCHANGED <<rendererVars, draw, wrapper, pt, wr>>
    /\ \E mode \in 0..2 :
          app' = setMode([app EXCEPT !.last = "mode", !.raised = FALSE], mode)

\* a Reset handler that keeps the particles it has
resetNoInit(a) ==
    LET zeroed == [Cancel([a EXCEPT !.isRunning = FALSE]) EXCEPT
                      !.totalFrames = 0,
                      !.totalRenderTime2D = 0,
                      !.totalRenderTimeWebGL = 0]
    IN  IF ~a.gl THEN [zeroed EXCEPT !.raised = TRUE]
        ELSE [zeroed EXCEPT !.shown = NoShown]

\* the click handler of resetBtn: stop, zero the counters, clear both
\* canvases (rendererWebGL.clear() raises without a context and the handler
\* ends there), initParticles(), reset the displays
reset(a) ==
    LET zeroed == [Cancel([a EXCEPT !.isRunning = FALSE]) EXCEPT
                      !.totalFrames = 0,
                      !.totalRenderTime2D = 0,
                      !.totalRenderTimeWebGL = 0]
    IN  IF ~a.gl THEN [zeroed EXCEPT !.raised = TRUE]
        ELSE [zeroed EXCEPT !.particles2d = a.particleCount,
                            !.particlesWebGL = a.particleCount,
                            !.shown = NoShown]

Reset ==
    /\ UNCHANGED <<rendererVars, draw, wrapper, pt, wr>>
    /\ app' = reset([app EXCEPT !.last = "reset", !.raised = FALSE])

\* the user moves the slider: its value changes and the input handler
\* stores parseInt(value) in particleCount
SliderInput ==
    /\ UNCHANGED <<rendererVars, draw, wrapper, pt, wr>>
    /\ \E v \in SliderValues :
          app' = [app EXCEPT !.sliderValue = v, !.particleCount = v,
                             !.last = "input", !.raised = FALSE]

\* the slider's change event: the handler calls resetBtn.click()
SliderChange ==
    /\ UNCHANGED <<rendererVars, draw, wrapper, pt, wr>>
    /\ app' = reset([app EXCEPT !.last = "change", !.raised = FALSE])

----------------------------------------------------------------------------
(* Particle.update (particle-simulation.js), on binary floating point *)

\* x += speedX is a floating-point addition: the exact sum is rounded to the
\* nearest number of the format, ties to the even significand.  The format
\* here has the rounding rule of the JavaScript Number with a significand of
\* Precision bits instead of 53, and its numbers are held as integers in
\* units of 2^-FracBits (every sum of two of them is such an integer).
Precision == 5

FracBits == 4

One == 2 ^ FracBits

RECURSIVE UlpFrom(_, _)
UlpFrom(m, u) == IF m < (2 ^ Precision) * u THEN u ELSE UlpFrom(m, 2 * u)

\* the spacing of the format's numbers at magnitude m
Ulp(m) == UlpFrom(m, 1)

\* round to nearest, ties to even, on a magnitude
RoundMagnitude(m) ==
    LET u == Ulp(m)
        q == m \div u
        r == m % u
    IN  IF 2 * r < u THEN q * u
        ELSE IF 2 * r > u THEN (q + 1) * u
        ELSE IF q % 2 = 0 THEN q * u
        ELSE (q + 1) * u

FlRound(n) == IF n < 0 THEN -RoundMagnitude(-n) ELSE RoundMagnitude(n)

\* a + b of two numbers of the format
FlAdd(a, b) == FlRound(a + b)

\* the canvas the particles live on: its width and height are integers
ParticleCanvas == [width |-> 3 * One, height |-> 4 * One]

\* longest run of update() calls on one particle
MaxUpdates == 4

\* the coordinates a particle is created with: whole pixels of the canvas
StartCoordinates(limit) == {k * One : k \in 0..(limit \div One)}

\* Math.random() * 3 - 1.5: every number of the format in [-1.5, 1.5)
Speeds == {s \in (0 - (3 * One) \div 2)..((3 * One) \div 2 - 1) : FlRound(s) = s}

\* new Particle(x, y, canvas); size and color are not read by update().
\* created keeps the speeds of construction; outside tells, for each axis,
\* whether the particle was beyond the canvas on that axis when the last
\* update() returned, outsideBefore the same for the update() before it.
NewParticle(x, y, speedX, speedY, canvas) ==
    [x |-> x, y |-> y, speedX |-> speedX, speedY |-> speedY, canvas |-> canvas,
     created |-> [speedX |-> speedX, speedY |-> speedY],
     outsideBefore |-> [x |-> FALSE, y |-> FALSE],
     outside |-> [x |-> FALSE, y |-> FALSE], updates |-> 0]

Outside(x, y, canvas) ==
    [x |-> x < 0 \/ x > canvas.width, y |-> y < 0 \/ y > canvas.height]

\* update()
update(p) ==
    LET x == FlAdd(p.x, p.speedX)
        y == FlAdd(p.y, p.speedY)
    IN  [p EXCEPT !.x = x, !.y = y,
                  !.speedX = IF x < 0 \/ x > p.canvas.width
                             THEN 0 - p.speedX ELSE p.speedX,
                  !.speedY = IF y < 0 \/ y > p.canvas.height
                             THEN 0 - p.speedY ELSE p.speedY,
                  !.outsideBefore = p.outside,
                  !.outside = Outside(x, y, p.canvas),
                  !.updates = p.updates + 1]

Update ==
    /\ pt.updates < MaxUpdates
    /\ UNCHANGED <<rendererVars, draw, wrapper, app, wr>>
    /\ pt' = update(pt)

----------------------------------------------------------------------------
(* The objects a specification does not use *)

Unused == "unused"

OthersUnused ==
    /\ draw = Unused
    /\ wrapper = Unused
    /\ app = Unused
    /\ pt = Unused
    /\ wr = Unused

\* the renderer before construction, for the specifications of other objects
RendererUnused ==
    /\ phase = "new"
    /\ env = [glSupported |-> TRUE, extAvailable |-> TRUE, shaders |-> "ok",
              outOfRange |-> "error"]
    /\ gl = FALSE
    /\ instancedArraysExt = FALSE
    /\ programInfo = FALSE
    /\ circleVertexCount = 0
    /\ ctx = GLInit
    /\ lastCall = NoCall
    /\ pcColor = <<>>
    /\ pcResult = NoResult
    /\ vsInput = NoVertex
    /\ glPosition = NoResult

----------------------------------------------------------------------------
(* WebGLRenderer (the page script of the comparison page) *)

\* the browser for this renderer: whether getContext gives a context and
\* how the shaders build
WebGLRendererEnvironments ==
    {e \in [glSupported : BOOLEAN,
            shaders : {"ok", "linkFails", "compileFailsThrows", "compileFailsLinkFails"}] :
        ~e.glSupported => e.shaders = "ok"}

\* most buffer objects kept alive in one context by calls that raised
MaxLeaked == 2

\* the names of the functions of the context a method calls, in order
WebGLRendererNoCall == [op |-> "none", raised |-> FALSE, calls |-> <<>>, buffersBefore |-> 0]

NoWebGLRenderer(e) ==
    [phase |-> "new", env |-> e, gl |-> FALSE, programInfo |-> FALSE,
     buffers |-> 0, call |-> WebGLRendererNoCall]

\* the page has no WebGLRenderer
AbsentWebGLRenderer ==
    [NoWebGLRenderer([glSupported |-> FALSE, shaders |-> "ok"]) EXCEPT !.phase = "absent"]

\* the number of live buffer objects after the calls from the k-th on
RECURSIVE LiveBuffers(_, _, _)
LiveBuffers(n, calls, k) ==
    IF k > Len(calls) THEN n
    ELSE LiveBuffers(CASE calls[k] = "createBuffer" -> n + 1
                       [] calls[k] = "deleteBuffer" -> n - 1
                       [] OTHER -> n,
                     calls, k + 1)

\* initShaders and compileShader (lines 156-235), then lines 149-153
WebGLRendererConstructorCalls ==
    <<"createShader", "shaderSource", "compileShader", "getShaderParameter",
      "createShader", "shaderSource", "compileShader", "getShaderParameter",
      "createProgram", "attachShader", "attachShader", "linkProgram",
      "getProgramParameter", "getAttribLocation", "getUniformLocation",
      "getUniformLocation", "clearColor", "enable", "blendFunc">>

\* what the constructor does to a new object
WebGLRendererConstructed(w) ==
    IF ~w.env.glSupported
    THEN [w EXCEPT !.phase = "ready",
                   !.call = [op |-> "constructor", raised |-> FALSE, calls |-> <<>>,
                             buffersBefore |-> w.buffers]]
    ELSE IF w.env.shaders = "compileFailsThrows"
    THEN [w EXCEPT !.phase = "threw",
                   !.call = [op |-> "constructor", raised |-> TRUE, calls |-> <<>>,
                             buffersBefore |-> w.buffers]]
    ELSE [w EXCEPT !.phase = "ready", !.gl = TRUE,
                   !.programInfo = (w.env.shaders = "ok"),
                   !.buffers = LiveBuffers(w.buffers, WebGLRendererConstructorCalls, 1),
                   !.call = [op |-> "constructor", raised |-> FALSE,
                             calls |-> WebGLRendererConstructorCalls,
                             buffersBefore |-> w.buffers]]

WebGLRendererConstructor ==
    /\ wr.phase = "new"
    /\ UNCHANGED <<rendererVars, draw, wrapper, app, pt>>
    /\ wr' = WebGLRendererConstructed(wr)

\* createBuffer, bindBuffer, bufferData at the head of a shape method
ShapeUploadCalls == <<"createBuffer", "bindBuffer", "bufferData">>

\* a shape method that does not clean up its buffer
ShapeDrawCallsNoDelete(extra) ==
    <<"useProgram", "enableVertexAttribArray", "vertexAttribPointer",
      "uniform2f", "uniform4fv">> \o extra \o
    <<"drawArrays", "disableVertexAttribArray">>

\* the rest of a shape method, from useProgram to deleteBuffer; extra is
\* what the method calls between the colour and the draw
ShapeDrawCalls(extra) ==
    <<"useProgram", "enableVertexAttribArray", "vertexAttribPointer",
      "uniform2f", "uniform4fv">> \o extra \o
    <<"drawArrays", "disableVertexAttribArray", "deleteBuffer">>

\* color.startsWith raises a TypeError on anything but a string
colorToRGBAThrows(color) == color.t # "string"

\* fillRect, fillCircle and drawLine are the same sequence but for the
\* positions, the draw mode and drawLine's lineWidth: colorToRGBA raises on a
\* colour that is no string and createBuffer on a null this.gl, both before
\* any call; an undefined this.programInfo raises at useProgram's argument,
\* after the upload
ShapeMethodRun(w, color, rest) ==
    IF colorToRGBAThrows(color) \/ ~w.gl THEN [raised |-> TRUE, calls |-> <<>>]
    ELSE IF ~w.programInfo THEN [raised |-> TRUE, calls |-> ShapeUploadCalls]
    ELSE [raised |-> FALSE, calls |-> ShapeUploadCalls \o rest]

WebGLRendererCalled(w, op, run) ==
    [w EXCEPT !.buffers = LiveBuffers(w.buffers, run.calls, 1),
              !.call = [op |-> op, raised |-> run.raised, calls |-> run.calls,
                        buffersBefore |-> w.buffers]]

fillRect(w, color) == WebGLRendererCalled(w, "fillRect", ShapeMethodRun(w, color, ShapeDrawCalls(<<>>)))

\* fillRoundRect calls fillRect
fillRoundRect(w, color) == [fillRect(w, color) EXCEPT !.call.op = "fillRoundRect"]

WebGLRendererFillCircleRun(w, color) ==
    WebGLRendererCalled(w, "fillCircle", ShapeMethodRun(w, color, ShapeDrawCalls(<<>>)))

drawLine(w, color) ==
    WebGLRendererCalled(w, "drawLine", ShapeMethodRun(w, color, ShapeDrawCalls(<<"lineWidth">>)))

\* clear(): this.gl.clear raises when this.gl is null
WebGLRendererClearRun(w) ==
    WebGLRendererCalled(w, "clear",
        IF w.gl THEN [raised |-> FALSE, calls |-> <<"clear">>]
        ELSE [raised |-> TRUE, calls |-> <<>>])

\* the colours the shape methods are called with
WebGLRendererColors == {JSString(White), Undefined}

\* the renderer can be called once constructed; a call that would leave
\* more than MaxLeaked buffers alive is not taken
WebGLRendererReady ==
    /\ wr.phase = "ready"
    /\ wr.buffers < MaxLeaked

WebGLRendererFillRect ==
    /\ WebGLRendererReady
    /\ UNCHANGED <<rendererVars, draw, wrapper, app, pt>>
    /\ \E color \in WebGLRendererColors : wr' = fillRect(wr, color)

WebGLRendererFillRoundRect ==
    /\ WebGLRendererReady
    /\ UNCHANGED <<rendererVars, draw, wrapper, app, pt>>
    /\ \E color \in WebGLRendererColors : wr' = fillRoundRect(wr, color)

WebGLRendererFillCircle ==
    /\ WebGLRendererReady
    /\ UNCHANGED <<rendererVars, draw, wrapper, app, pt>>
    /\ \E color \in WebGLRendererColors : wr' = WebGLRendererFillCircleRun(wr, color)

WebGLRendererDrawLine ==
    /\ WebGLRendererReady
    /\ UNCHANGED <<rendererVars, draw, wrapper, app, pt>>
    /\ \E color \in WebGLRendererColors : wr' = drawLine(wr, color)

WebGLRendererClear ==
    /\ WebGLRendererReady
    /\ UNCHANGED <<rendererVars, draw, wrapper, app, pt>>
    /\ wr' = WebGLRendererClearRun(wr)

----------------------------------------------------------------------------
(* Specifications *)

Init ==
    /\ phase = "new"
    /\ env \in Environments
    /\ gl = FALSE
    /\ instancedArraysExt = FALSE
    /\ programInfo = FALSE
    /\ circleVertexCount = 0
    /\ ctx = GLInit
    /\ lastCall = NoCall
    /\ pcColor = <<>>
    /\ pcResult = NoResult
    /\ vsInput = NoVertex
    /\ glPosition = NoResult
    /\ OthersUnused

Next ==
    \/ Constructor
    \/ SetExtensionAvailable
    \/ Clear
    \/ DrawParticles
    \/ FillCircle

Spec == Init /\ [][Next]_vars

\* parseColor applied to a string: no renderer state is involved
InitColor ==
    /\ phase = "new"
    /\ env = [glSupported |-> TRUE, extAvailable |-> TRUE, shaders |-> "ok",
              outOfRange |-> "error"]
    /\ gl = FALSE
    /\ instancedArraysExt = FALSE
    /\ programInfo = FALSE
    /\ circleVertexCount = 0
    /\ ctx = GLInit
    /\ lastCall = NoCall
    /\ pcColor \in ColorInputs
    /\ pcResult = NoResult
    /\ vsInput = NoVertex
    /\ glPosition = NoResult
    /\ OthersUnused

NextColor == ParseColorCall

SpecColor == InitColor /\ [][NextColor]_vars

\* the vertex shader applied to one vertex: no renderer state is involved
InitShader ==
    /\ phase = "new"
    /\ env = [glSupported |-> TRUE, extAvailable |-> TRUE, shaders |-> "ok",
              outOfRange |-> "error"]
    /\ gl = FALSE
    /\ instancedArraysExt = FALSE
    /\ programInfo = FALSE
    /\ circleVertexCount = 0
    /\ ctx = GLInit
    /\ lastCall = NoCall
    /\ pcColor = <<>>
    /\ pcResult = NoResult
    /\ vsInput \in VertexInputs
    /\ glPosition = NoResult
    /\ OthersUnused

NextShader == VertexShaderMain

SpecShader == InitShader /\ [][NextShader]_vars

\* a WebGLParticleRendererOptimized: its constructor is the renderer's
InitRender ==
    /\ phase = "new"
    /\ env \in Environments
    /\ gl = FALSE
    /\ instancedArraysExt = FALSE
    /\ programInfo = FALSE
    /\ circleVertexCount = 0
    /\ ctx = GLInit
    /\ lastCall = NoCall
    /\ pcColor = <<>>
    /\ pcResult = NoResult
    /\ vsInput = NoVertex
    /\ glPosition = NoResult
    /\ draw = Unused
    /\ wrapper = NoWrapper
    /\ app = Unused
    /\ pt = Unused
    /\ wr = Unused

NextRender ==
    \/ Constructor
    \/ InitParticles
    \/ Render

SpecRender == InitRender /\ [][NextRender]_vars

\* the page after loading, animated for a few frames
InitApp ==
    /\ RendererUnused
    /\ draw = Unused
    /\ wrapper = Unused
    /\ app \in {AppLoaded(glOk, MaxTicks) : glOk \in BOOLEAN}
    /\ pt = Unused
    /\ wr = Unused

NextApp ==
    \/ Tick
    \/ Start
    \/ Stop
    \/ ModeButton
    \/ Reset
    \/ SliderInput
    \/ SliderChange

SpecApp == InitApp /\ [][NextApp]_vars

\* the page after loading, animated up to the first comparison it shows
InitPerf ==
    /\ RendererUnused
    /\ draw = Unused
    /\ wrapper = Unused
    /\ app = AppLoaded(TRUE, UpdateEvery)
    /\ pt = Unused
    /\ wr = Unused

SpecPerf == InitPerf /\ [][NextApp]_vars

\* one particle created inside its canvas, updated frame after frame
InitParticle ==
    /\ RendererUnused
    /\ draw = Unused
    /\ wrapper = Unused
    /\ app = Unused
    /\ pt \in {NewParticle(x, y, speedX, speedY, ParticleCanvas) :
                  x \in StartCoordinates(ParticleCanvas.width),
                  y \in StartCoordinates(ParticleCanvas.height),
                  speedX \in Speeds, speedY \in Speeds}
    /\ wr = Unused

NextParticle == Update

SpecParticle == InitParticle /\ [][NextParticle]_vars

\* a WebGLRenderer on a canvas of its own
InitWebGLRenderer ==
    /\ RendererUnused
    /\ draw = Unused
    /\ wrapper = Unused
    /\ app = Unused
    /\ pt = Unused
    /\ wr \in {NoWebGLRenderer(e) : e \in WebGLRendererEnvironments}

NextWebGLRenderer ==
    \/ WebGLRendererConstructor
    \/ WebGLRendererClear
    \/ WebGLRendererFillRect
    \/ WebGLRendererFillRoundRect
    \/ WebGLRendererFillCircle
    \/ WebGLRendererDrawLine

\* a page has one renderer or the other, each with a context of its own:
\* the instanced renderer as in Init, or the WebGLRenderer
InitBuffers ==
    \/ /\ phase = "new"
       /\ env \in Environments
       /\ gl = FALSE
       /\ instancedArraysExt = FALSE
       /\ programInfo = FALSE
       /\ circleVertexCount = 0
       /\ ctx = GLInit
       /\ lastCall = NoCall
       /\ pcColor = <<>>
       /\ pcResult = NoResult
       /\ vsInput = NoVertex
       /\ glPosition = NoResult
       /\ draw = Unused
       /\ wrapper = Unused
       /\ app = Unused
       /\ pt = Unused
       /\ wr = AbsentWebGLRenderer
    \/ InitWebGLRenderer

NextBuffers ==
    \/ (wr.phase = "absent" /\ Next)
    \/ NextWebGLRenderer

SpecBuffers == InitBuffers /\ [][NextBuffers]_vars

\* a WebGLDraw object on a canvas of its own
InitDraw ==
    /\ RendererUnused
    /\ draw = NoDraw
    /\ wrapper = Unused
    /\ app = Unused
    /\ pt = Unused
    /\ wr = Unused

NextDraw ==
    \/ DrawConstructor
    \/ SetColor
    \/ Line
    \/ Polygon

SpecDraw == InitDraw /\ [][NextDraw]_vars

----------------------------------------------------------------------------
(* Reading the record of the last call *)

Max(S) == CHOOSE x \in S : \A y \in S : y <= x

IsDraw(cmd) == cmd.op \in {"drawArrays", "drawArraysInstancedANGLE"}

DrawIndices(cmds) == {k \in 1..Len(cmds) : IsDraw(cmds[k])}

DrawCount(cmds) == Cardinality(DrawIndices(cmds))

\* index of the i-th draw command
NthDraw(cmds, i) ==
    CHOOSE k \in DrawIndices(cmds) :
        Cardinality({j \in DrawIndices(cmds) : j <= k}) = i

\* particles one draw command submits
Instances(cmd) == IF cmd.op = "drawArraysInstancedANGLE" THEN cmd.m ELSE 1

RECURSIVE SubmittedFrom(_, _)
SubmittedFrom(cmds, k) ==
    IF k > Len(cmds) THEN 0
    ELSE (IF IsDraw(cmds[k]) THEN Instances(cmds[k]) ELSE 0) + SubmittedFrom(cmds, k + 1)

\* particles a call submits over all its draw commands
Submitted(cmds) == SubmittedFrom(cmds, 1)

\* buffer bound to ARRAY_BUFFER when command k is sent
BoundAt(cmds, k) ==
    LET binds == {j \in 1..(k - 1) : cmds[j].op = "bindBuffer"}
    IN  IF binds = {} THEN "none" ELSE cmds[Max(binds)].target

\* uploads to a buffer among commands from..to
UploadIndices(cmds, buffer, from, to) ==
    {k \in from..to : cmds[k].op = "bufferData" /\ BoundAt(cmds, k) = buffer}

OnlyUpload(cmds, buffer, from, to, data) ==
    \E k \in UploadIndices(cmds, buffer, from, to) :
        /\ UploadIndices(cmds, buffer, from, to) = {k}
        /\ cmds[k].data = data

LastUpload(cmds, buffer, from, to, data) ==
    /\ UploadIndices(cmds, buffer, from, to) # {}
    /\ cmds[Max(UploadIndices(cmds, buffer, from, to))].data = data

\* what the contract says a particle contributes to each stream
PositionOf(p) == <<Num(p.x), Num(p.y)>>
SizeOf(p) == <<Num(p.size)>>
ColorOf(p) == parseColor(p.color.s)

\* the values of all particles in input order, w per particle
Packed(ps, w, F(_)) ==
    [k \in 1..(w * Len(ps)) |-> F(ps[((k - 1) \div w) + 1])[((k - 1) % w) + 1]]

\* the last call was a drawParticles call that returned normally after
\* sending commands for a list of at least one particle
DrewParticles ==
    /\ lastCall.op = "drawParticles"
    /\ ~lastCall.raised
    /\ ~lastCall.argNull
    /\ Len(lastCall.arg) >= 1

IsBatched(cmds) == \E k \in 1..Len(cmds) : cmds[k].op = "drawArraysInstancedANGLE"

----------------------------------------------------------------------------
(* Claims *)

\* C1: a drawParticles call that returns has issued exactly one draw command
\* (an instanced one) when the renderer holds the instancing extension,
\* exactly N plain draw commands when it does not, and none for an empty or
\* null list.
C1_DrawCallCount ==
    (lastCall.op = "drawParticles" /\ ~lastCall.raised) =>
        LET cmds == lastCall.cmds
            N    == IF lastCall.argNull THEN 0 ELSE Len(lastCall.arg)
        IN  /\ DrawCount(cmds) = IF N = 0 THEN 0
                                 ELSE IF instancedArraysExt THEN 1
                                 ELSE N
            /\ \A k \in DrawIndices(cmds) :
                  cmds[k].op = IF instancedArraysExt THEN "drawArraysInstancedANGLE"
                               ELSE "drawArrays"

C1_Witness ==
    /\ DrewParticles
    /\ ~instancedArraysExt
    /\ Len(lastCall.arg) >= 2
    /\ DrawCount(lastCall.cmds) = Len(lastCall.arg)

\* C2: on the batched path the one draw command has instance count N and
\* vertex count segments + 2 = 14, and the arrays uploaded before it hold
\* x, y of every particle (2N values), the sizes (N values) and the RGBA of
\* every particle (4N values), all in input order; a white particle
\* contributes 1, 1, 1, 1.
C2_InstancedDrawAndArrays ==
    (DrewParticles /\ instancedArraysExt) =>
        LET cmds == lastCall.cmds
            ps   == lastCall.arg
            d    == NthDraw(cmds, 1)
        IN  /\ DrawCount(cmds) = 1
            /\ cmds[d].op = "drawArraysInstancedANGLE"
            /\ cmds[d].m = Len(ps)
            /\ cmds[d].n = Segments + 2
            /\ cmds[d].n = 14
            /\ OnlyUpload(cmds, "instancePositionBuffer", 1, d, Packed(ps, 2, PositionOf))
            /\ OnlyUpload(cmds, "instanceSizeBuffer", 1, d, Packed(ps, 1, SizeOf))
            /\ OnlyUpload(cmds, "instanceColorBuffer", 1, d, Packed(ps, 4, ColorOf))
            /\ \A i \in 1..Len(ps) :
                  ps[i].color = JSString(White) =>
                      \A k \in UploadIndices(cmds, "instanceColorBuffer", 1, d) :
                          SubSeq(cmds[k].data, 4 * i - 3, 4 * i)
                             = <<Num(1), Num(1), Num(1), Num(1)>>

C2_Witness ==
    /\ DrewParticles
    /\ instancedArraysExt
    /\ Len(lastCall.arg) = 2
    /\ lastCall.arg[1] # lastCall.arg[2]
    /\ lastCall.arg[1].color = JSString(White)
    /\ lastCall.cmds[NthDraw(lastCall.cmds, 1)].m = 2

\* C3: at every call boundary the divisor of the instance position, size
\* and colour attributes is 0, so also after every call that took the
\* batched path.
C3_DivisorsReset == \A a \in InstanceAttrs : ctx.divisor[a] = 0

C3_Witness ==
    /\ DrewParticles
    /\ IsBatched(lastCall.cmds)
    /\ \E k \in 1..Len(lastCall.cmds) :
          lastCall.cmds[k].op = "vertexAttribDivisorANGLE" /\ lastCall.cmds[k].n = 1
    /\ \A a \in InstanceAttrs : ctx.divisor[a] = 0

\* C4: the renderer stores at construction whether the extension is
\* offered, never changes what it stored, and every drawParticles call takes
\* the path of the stored value, whatever the browser offers at that time.
C4_PathFixedAtConstruction ==
    [][/\ (phase = "new" /\ gl') => (instancedArraysExt' = env.extAvailable)
       /\ (phase = "ready") => (instancedArraysExt' = instancedArraysExt)
       /\ (lastCall'.op = "drawParticles" /\ DrawCount(lastCall'.cmds) > 0)
             => (IsBatched(lastCall'.cmds) <=> instancedArraysExt)]_vars

C4_Witness ==
    /\ DrewParticles
    /\ env.extAvailable # instancedArraysExt
    /\ IsBatched(lastCall.cmds) = instancedArraysExt

\* C5 (as the specification states it): in a frame made by clear() and then
\* drawParticles on the fallback path, every pixel that two or more
\* particles cover shows the one that comes last in the input.
C5_LaterParticleOnTop ==
    (DrewParticles /\ lastCall.afterClear /\ ~instancedArraysExt) =>
        \A p \in Pixels :
            LET ps   == lastCall.arg
                over == {i \in 1..Len(ps) :
                            p \in Disk(PositionOf(ps[i]), SizeOf(ps[i])[1])}
            IN  Cardinality(over) >= 2 => ctx.fb[p] = Max(over) - 1

\* C6: on the fallback path the i-th draw command is a plain draw that
\* follows, after the previous draw, uploads whose last values are exactly
\* particle i's position (2 values), size (1 value) and colour (4 values);
\* from the second particle on these are the only uploads between two draws.
C6_FallbackOrder ==
    (DrewParticles /\ ~instancedArraysExt) =>
        LET cmds == lastCall.cmds
            ps   == lastCall.arg
        IN  /\ DrawCount(cmds) = Len(ps)
            /\ \A i \in 1..Len(ps) :
                  LET from == IF i = 1 THEN 1 ELSE NthDraw(cmds, i - 1) + 1
                      to   == NthDraw(cmds, i) - 1
                  IN  /\ cmds[NthDraw(cmds, i)].op = "drawArrays"
                      /\ LastUpload(cmds, "instancePositionBuffer", from, to, PositionOf(ps[i]))
                      /\ LastUpload(cmds, "instanceSizeBuffer", from, to, SizeOf(ps[i]))
                      /\ LastUpload(cmds, "instanceColorBuffer", from, to, ColorOf(ps[i]))
                      /\ i > 1 =>
                            /\ OnlyUpload(cmds, "instancePositionBuffer", from, to,
                                          PositionOf(ps[i]))
                            /\ OnlyUpload(cmds, "instanceSizeBuffer", from, to, SizeOf(ps[i]))
                            /\ OnlyUpload(cmds, "instanceColorBuffer", from, to, ColorOf(ps[i]))
                            /\ Cardinality({k \in from..to : cmds[k].op = "bufferData"}) = 3

C6_Witness ==
    /\ DrewParticles
    /\ ~instancedArraysExt
    /\ Len(lastCall.arg) = 2
    /\ PositionOf(lastCall.arg[1]) # PositionOf(lastCall.arg[2])
    /\ DrawCount(lastCall.cmds) = 2

\* C7: every drawParticles call submits all N particles or none: all N when
\* it returns normally, none when it raises (a bad record, a renderer whose
\* initialization failed) or when the list is null.
C7_AllOrNothing ==
    (lastCall.op = "drawParticles") =>
        LET N == IF lastCall.argNull THEN 0 ELSE Len(lastCall.arg)
            S == Submitted(lastCall.cmds)
        IN  /\ S \in {0, N}
            /\ lastCall.raised => S = 0
            /\ ~lastCall.raised => S = N

C7_Witness ==
    /\ lastCall.op = "drawParticles"
    /\ lastCall.raised
    /\ gl /\ programInfo
    /\ Len(lastCall.arg) >= 2
    /\ ~lastCall.arg[1].null
    /\ Submitted(lastCall.cmds) = 0

\* '#' followed by exactly six hexadecimal digits
IsHexForm(s) ==
    /\ Len(s) = 7
    /\ s[1] = "#"
    /\ \A k \in 2..7 : s[k] \in HexDigits

\* digits with at most one decimal point
IsNumeric(s) ==
    /\ \A k \in 1..Len(s) : s[k] \in DigitOrDot
    /\ \E k \in 1..Len(s) : s[k] \in Digits
    /\ Cardinality({k \in 1..Len(s) : s[k] = "."}) <= 1

\* the whole string is hsl(H, S%, L%) with numeric H and integer S and L
IsHslForm(s) ==
    /\ HslMatchAt(s, 1).ok
    /\ HslMatchAt(s, 1).last = Len(s)
    /\ IsNumeric(HslMatchAt(s, 1).g1)

\* C8 (as the specification states it): whatever the colour value of each
\* particle (a well-formed or malformed string, the empty string, no value),
\* a drawParticles call on a working renderer returns normally, submits all
\* N particles, and uploads opaque black for every colour that is in neither
\* accepted form.
C8_AnyColorDraws ==
    (/\ lastCall.op = "drawParticles"
     /\ gl /\ programInfo
     /\ ~lastCall.argNull
     /\ \A i \in 1..Len(lastCall.arg) : ~lastCall.arg[i].null) =>
        LET cmds == lastCall.cmds
            ps   == lastCall.arg
        IN  /\ ~lastCall.raised
            /\ Submitted(cmds) = Len(ps)
            /\ \A i \in 1..Len(ps) :
                  (\/ ps[i].color.t # "string"
                   \/ (~IsHexForm(ps[i].color.s) /\ ~IsHslForm(ps[i].color.s))) =>
                      \A k \in UploadIndices(cmds, "instanceColorBuffer", 1, 15) :
                          SubSeq(cmds[k].data, 4 * i - 3, 4 * i) = Black

\* C9 (as the specification states it): parseColor returns opaque black for
\* every string that is neither '#' with six hexadecimal digits nor of the
\* form hsl(H, S%, L%).
C9_OtherStringsBlack ==
    (pcResult # NoResult /\ ~IsHexForm(pcColor) /\ ~IsHslForm(pcColor)) =>
        pcResult = Black

\* value of the two hexadecimal digits at k and k + 1
HexByte(s, k) == 16 * DigitVal(s[k]) + DigitVal(s[k + 1])

\* C10: for '#RRGGBB' with hexadecimal digits of either case parseColor
\* returns (RR / 255, GG / 255, BB / 255, 1); '#ff0000' gives (1, 0, 0, 1)
\* and '#000000' gives (0, 0, 0, 1).
C10_HexColor ==
    (pcResult # NoResult /\ IsHexForm(pcColor)) =>
        /\ pcResult = <<Rat(HexByte(pcColor, 2), 255),
                        Rat(HexByte(pcColor, 4), 255),
                        Rat(HexByte(pcColor, 6), 255),
                        Num(1)>>
        /\ pcColor = <<"#", "f", "f", "0", "0", "0", "0">>
              => pcResult = <<<<1, 1>>, <<0, 1>>, <<0, 1>>, <<1, 1>>>>
        /\ pcColor = <<"#", "0", "0", "0", "0", "0", "0">>
              => pcResult = <<<<0, 1>>, <<0, 1>>, <<0, 1>>, <<1, 1>>>>

C10_Witness ==
    /\ pcColor = <<"#", "F", "F", "9", "a", "0", "0">>
    /\ pcResult = <<<<1, 1>>, <<154, 255>>, <<0, 1>>, <<1, 1>>>>

\* |a|
AbsNum(a) == IF Lt(a, Num(0)) THEN Neg(a) ELSE a

\* the largest integer not above a non-negative number
Floor(a) == a[1] \div a[2]

\* the textbook conversion of hue H in degrees (0 <= H < 360) and saturation
\* S and lightness L in 0..1: chroma C = (1 - |2L - 1|) S, the second
\* component X = C (1 - |(H / 60) mod 2 - 1|), the sector of H choosing where
\* C, X and 0 go, and the lightness offset m = L - C / 2 added to each
StandardHslToRgb(H, S, L) ==
    LET C      == Mul(Sub(Num(1), AbsNum(Sub(Mul(Num(2), L), Num(1)))), S)
        hp     == DivInt(H, 60)
        sector == Floor(hp)
        hmod2  == Sub(hp, Num(2 * (Floor(hp) \div 2)))
        X      == Mul(C, Sub(Num(1), AbsNum(Sub(hmod2, Num(1)))))
        m      == Sub(L, DivInt(C, 2))
        zero   == Num(0)
        rgb    == CASE sector = 0 -> <<C, X, zero>>
                    [] sector = 1 -> <<X, C, zero>>
                    [] sector = 2 -> <<zero, C, X>>
                    [] sector = 3 -> <<zero, X, C>>
                    [] sector = 4 -> <<X, zero, C>>
                    [] OTHER      -> <<C, zero, X>>
    IN  <<Add(rgb[1], m), Add(rgb[2], m), Add(rgb[3], m)>>

\* the hue, saturation and lightness a string of the hsl form names
HueOf(s) == ParseFloat(HslMatchAt(s, 1).g1)
SaturationOf(s) == ParseInt(HslMatchAt(s, 1).g2, 0)
LightnessOf(s) == ParseInt(HslMatchAt(s, 1).g3, 0)

\* hsl(H, S%, L%) with 0 <= H < 360 and S, L in 0..100
IsHslInRange(s) ==
    /\ IsHslForm(s)
    /\ Lt(HueOf(s), Num(360))
    /\ ~Lt(Num(100), SaturationOf(s))
    /\ ~Lt(Num(100), LightnessOf(s))

\* C11: for hsl(H, S%, L%) with H in [0, 360) and integer S, L in 0..100
\* parseColor returns the standard conversion with alpha 1: (L, L, L, 1) when
\* S = 0, the six-sector conversion otherwise; hsl(0,100%,50%) gives
\* (1, 0, 0, 1) and hsl(120,100%,50%) gives (0, 1, 0, 1).
C11_HslConversion ==
    (pcResult # NoResult /\ IsHslInRange(pcColor)) =>
        LET S   == DivInt(SaturationOf(pcColor), 100)
            L   == DivInt(LightnessOf(pcColor), 100)
            rgb == StandardHslToRgb(HueOf(pcColor), S, L)
        IN  /\ pcResult = <<rgb[1], rgb[2], rgb[3], Num(1)>>
            /\ IsZero(S) => pcResult = <<L, L, L, Num(1)>>
            /\ pcColor = HslPrefix \o <<"0", ",", "1", "0", "0", "%", ",", "5", "0", "%", ")">>
                  => pcResult = <<<<1, 1>>, <<0, 1>>, <<0, 1>>, <<1, 1>>>>
            /\ pcColor = HslPrefix \o <<"1", "2", "0", ",", "1", "0", "0", "%", ",",
                                        "5", "0", "%", ")">>
                  => pcResult = <<<<0, 1>>, <<1, 1>>, <<0, 1>>, <<1, 1>>>>

C11_Witness ==
    /\ pcColor = HslPrefix \o <<"1", "2", "0", ",", "1", "0", "0", "%", ",",
                                "5", "0", "%", ")">>
    /\ pcResult = <<<<0, 1>>, <<1, 1>>, <<0, 1>>, <<1, 1>>>>

\* 0 <= a <= 1; false for NaN
InUnit(a) == ~IsNaN(a) /\ ~Lt(a, Num(0)) /\ ~Lt(Num(1), a)

\* C12 (as the specification states it): whatever colour strings the
\* particles carry, each of the 4N entries of the colors array a
\* drawParticles call uploads is a number in [0, 1] and every fourth entry
\* is exactly 1.
C12_ChannelsInUnitRange ==
    (DrewParticles /\ \A i \in 1..Len(lastCall.arg) : lastCall.arg[i].color.t = "string") =>
        \A k \in UploadIndices(lastCall.cmds, "instanceColorBuffer", 1, 15) :
            LET colors == lastCall.cmds[k].data
            IN  /\ Len(colors) = 4 * Len(lastCall.arg)
                /\ \A j \in 1..Len(colors) :
                      /\ InUnit(colors[j])
                      /\ j % 4 = 0 => colors[j] = Num(1)

UniformIndices(cmds) == {k \in 1..Len(cmds) : cmds[k].op = "uniform2f"}

\* C14: every drawParticles call on one or more particles, batched or
\* fallback, sets the resolution uniform exactly once, to the canvas width
\* and height, before its first draw command.
C14_ResolutionOncePerCall ==
    DrewParticles =>
        LET cmds == lastCall.cmds
        IN  /\ Cardinality(UniformIndices(cmds)) = 1
            /\ \A k \in UniformIndices(cmds) :
                  /\ cmds[k].target = "resolution"
                  /\ cmds[k].n = Canvas.width
                  /\ cmds[k].m = Canvas.height
                  /\ k < NthDraw(cmds, 1)
            /\ ctx.resolution = <<Canvas.width, Canvas.height>>

C14_Witness ==
    /\ DrewParticles
    /\ ~instancedArraysExt
    /\ Len(lastCall.arg) = 2
    /\ DrawCount(lastCall.cmds) = 2
    /\ Cardinality(UniformIndices(lastCall.cmds)) = 1

\* C15: template vertex (vx, vy) of a particle at (x, y) with size s maps to
\* the pixel (vx * s + x, vy * s + y) and then to the clip-space point
\* ((px / W) * 2 - 1, -((py / H) * 2 - 1)) for a resolution (W, H) with
\* W, H > 0; the centre vertex of a particle at (0, 0) with size 0 maps to
\* (-1, 1), and a vertex at pixel (W, H) maps to (1, -1).
C15_PixelToClip ==
    (glPosition # NoResult) =>
        LET v  == vsInput.aVertexPosition
            s  == vsInput.aInstanceSize
            c  == vsInput.aInstancePosition
            W  == vsInput.uResolution[1]
            H  == vsInput.uResolution[2]
            px == Add(Mul(v[1], s), c[1])
            py == Add(Mul(v[2], s), c[2])
        IN  /\ glPosition[1] = Sub(DivInt(Mul(px, Num(2 * W[2])), W[1]), Num(1))
            /\ glPosition[2] = Neg(Sub(DivInt(Mul(py, Num(2 * H[2])), H[1]), Num(1)))
            /\ (v = <<Num(0), Num(0)>> /\ s = Num(0) /\ c = <<Num(0), Num(0)>>)
                  => glPosition = <<Num(-1), Num(1)>>
            /\ (px = W /\ py = H) => glPosition = <<Num(1), Num(-1)>>

C15_Witness ==
    /\ glPosition = <<Num(1), Num(-1)>>
    /\ vsInput.aInstanceSize # Num(0)
    /\ vsInput.aVertexPosition # <<Num(0), Num(0)>>

\* vertex k (from 0) of a vertex array of x, y pairs
VertexAt(t, k) == <<t[2 * k + 1], t[2 * k + 2]>>

\* C16 (as the specification states it): the template generated at
\* initialization for S segments has S + 2 vertices, the vertex count of
\* every draw command; vertex 0 is (0, 0); ring vertex k is the cosine and
\* sine of k / S of a full turn; the last ring vertex equals the first ring
\* vertex; and generating it again gives the same vertices.
C16_TemplateShape ==
    gl =>
        LET t == ctx.buffers["circleBuffer"]
            S == Segments
        IN  /\ Len(t) = 2 * (S + 2)
            /\ circleVertexCount = S + 2
            /\ \A k \in DrawIndices(lastCall.cmds) : lastCall.cmds[k].n = S + 2
            /\ VertexAt(t, 0) = <<Num(0), Num(0)>>
            /\ \A k \in 0..S : VertexAt(t, k + 1) = <<MathCos(k, S), MathSin(k, S)>>
            /\ VertexAt(t, S + 1) = VertexAt(t, 1)
            /\ t = CircleTemplate(S)

\* C17: the template buffer is written once, by the constructor: whatever
\* drawParticles, clear and fillCircle calls follow, it holds the vertices
\* initBuffers generated, the stored vertex count is segments + 2, and no
\* call other than the constructor uploads to it.
C17_TemplateWrittenOnce ==
    gl =>
        /\ ctx.buffers["circleBuffer"] = CircleVertices
        /\ circleVertexCount = Segments + 2
        /\ Cardinality(UploadIndices(lastCall.cmds, "circleBuffer", 1, Len(lastCall.cmds)))
              = IF lastCall.op = "constructor" THEN 1 ELSE 0

C17_Witness ==
    /\ gl
    /\ lastCall.op = "fillCircle"
    /\ ~lastCall.raised
    /\ \E p \in Pixels : ctx.fb[p] = Earlier
    /\ ctx.buffers["circleBuffer"] = CircleVertices

C19_EmptyIsNoOp ==
    [][(/\ lastCall'.op = "drawParticles"
        /\ lastCall'.argNull \/ Len(lastCall'.arg) = 0)
       => (/\ lastCall'.cmds = <<>>
           /\ ~lastCall'.raised
           /\ ctx' = ctx)]_vars

C19_Witness ==
    /\ lastCall.op = "drawParticles"
    /\ ~lastCall.argNull
    /\ Len(lastCall.arg) = 0
    /\ lastCall.cmds = <<>>
    /\ \E p \in Pixels : ctx.fb[p] # Background
    /\ ctx.program # "none"

\* what command k of a call is, as seen from outside: an upload with its
\* buffer and data, a uniform write with its values, or a draw with its counts
Observation(cmds, k) ==
    CASE cmds[k].op = "bufferData" -> <<"upload", BoundAt(cmds, k), cmds[k].data>>
      [] cmds[k].op \in {"uniform2f", "uniform4fv"} ->
            <<"uniform", cmds[k].target, cmds[k].n, cmds[k].m>>
      [] IsDraw(cmds[k]) -> <<"draw", cmds[k].op, cmds[k].n, Instances(cmds[k])>>
      [] OTHER -> <<>>

\* the uploads, uniform writes and draw commands of a call, in order
RECURSIVE ObservedFrom(_, _)
ObservedFrom(cmds, k) ==
    IF k > Len(cmds) THEN <<>>
    ELSE (IF Observation(cmds, k) = <<>> THEN <<>> ELSE <<Observation(cmds, k)>>)
            \o ObservedFrom(cmds, k + 1)

\* the sequence determined by a particle list, the capability flag, the
\* vertex count of the template and the resolution alone
RECURSIVE ExpectedSingles(_, _, _)
ExpectedSingles(ps, i, count) ==
    IF i > Len(ps) THEN <<>>
    ELSE << <<"upload", "instancePositionBuffer", PositionOf(ps[i])>>,
            <<"upload", "instanceSizeBuffer", SizeOf(ps[i])>>,
            <<"upload", "instanceColorBuffer", ColorOf(ps[i])>>,
            <<"draw", "drawArrays", count, 1>> >>
            \o ExpectedSingles(ps, i + 1, count)

ExpectedObserved(ps, instanced, count, resolution) ==
    << <<"uniform", "resolution", resolution.width, resolution.height>>,
       <<"upload", "instancePositionBuffer", Packed(ps, 2, PositionOf)>>,
       <<"upload", "instanceSizeBuffer", Packed(ps, 1, SizeOf)>>,
       <<"upload", "instanceColorBuffer", Packed(ps, 4, ColorOf)>> >>
        \o (IF instanced
            THEN << <<"draw", "drawArraysInstancedANGLE", count, Len(ps)>> >>
            ELSE ExpectedSingles(ps, 1, count))

\* C20: the uploads, uniform writes and draw commands of a drawParticles
\* call that returns are determined by the call's particle list, the stored
\* capability flag, the template's vertex count and the canvas resolution,
\* whatever calls came before it and whatever the context holds; a call that
\* raises sends none.
C20_StatelessAcrossFrames ==
    (lastCall.op = "drawParticles" /\ ~lastCall.argNull /\ Len(lastCall.arg) >= 1) =>
        ObservedFrom(lastCall.cmds, 1)
            = IF lastCall.raised THEN <<>>
              ELSE ExpectedObserved(lastCall.arg, instancedArraysExt, Segments + 2, Canvas)

\* a one-particle call after an earlier call drew a larger particle
\* elsewhere: pixel (2, 0) is outside the particle of this call
C20_Witness ==
    /\ DrewParticles
    /\ Len(lastCall.arg) = 1
    /\ lastCall.arg[1] = Particle(1, 0, 1, JSString(White))
    /\ ctx.fb[<<2, 0>>] = Earlier
    /\ Len(ObservedFrom(lastCall.cmds, 1)) >= 5

\* the context when command k of a call is sent, for a call that starts in
\* context c
ContextAt(c, cmds, k, oob) == GLRun(StartOperation(c), SubSeq(cmds, 1, k - 1), 1, oob)

\* C21: on the batched path, when the one instanced draw command is sent,
\* the divisor of the instance position, size and colour attributes is 1 and
\* the divisor of the template vertex attribute is 0, whatever calls came
\* before.
C21_StepRatesAtDraw ==
    [][(/\ lastCall'.op = "drawParticles"
        /\ IsBatched(lastCall'.cmds))
       => \A d \in DrawIndices(lastCall'.cmds) :
             /\ \A a \in InstanceAttrs :
                   ContextAt(ctx, lastCall'.cmds, d, env.outOfRange).divisor[a] = 1
             /\ ContextAt(ctx, lastCall'.cmds, d, env.outOfRange).divisor["vertexPosition"] = 0]_vars

\* a batched call of two particles that follows an earlier draw
C21_Witness ==
    /\ DrewParticles
    /\ instancedArraysExt
    /\ IsBatched(lastCall.cmds)
    /\ Len(lastCall.arg) = 2
    /\ \E p \in Pixels : ctx.fb[p] = Earlier
    /\ ctx.divisor["vertexPosition"] = 0

DrawUploads(cmds) == {k \in 1..Len(cmds) : cmds[k].op = "bufferData"}

\* C22: polygon called with fewer than 3 points reports 'Polygon requires
\* at least 3 points' and returns: it sends no draw command and no upload
\* (no command at all) and leaves the drawing colour as it was, with fill
\* true and with fill false.
C22_PolygonTooFewPoints ==
    (draw.call.op = "polygon" /\ Len(draw.call.points) < 3) =>
        /\ draw.call.logged = "Polygon requires at least 3 points"
        /\ ~draw.call.raised
        /\ DrawIndices(draw.call.cmds) = {}
        /\ DrawUploads(draw.call.cmds) = {}
        /\ draw.call.cmds = <<>>
        /\ draw.color = draw.call.colorBefore

\* a red outline call with two points on an object that can draw
C22_Witness ==
    /\ draw.call.op = "polygon"
    /\ Len(draw.call.points) = 2
    /\ ~draw.call.fill
    /\ draw.call.logged = "Polygon requires at least 3 points"
    /\ draw.color = <<Num(1), Num(0), Num(0), Num(1)>>
    /\ draw.gl
    /\ draw.programInfo

\* the upload a draw command of a WebGLDraw call draws from
UploadBefore(cmds, k) ==
    cmds[CHOOSE u \in DrawUploads(cmds) :
            /\ u < k
            /\ \A v \in DrawUploads(cmds) : v < k => v <= u]

Half(a) == DivInt(a, 2)

Square(a) == Mul(a, a)

\* a strip of four corners is a line from pixel p1 to pixel p2 of width w:
\* the first two corners lie either side of p1, the last two either side of
\* p2, and each pair is w pixels apart, in the coordinates of the context
IsLineStrip(data, p1, p2, w, canvas) ==
    /\ Len(data) = 8
    /\ Half(Add(data[1], data[3])) = ToGLX(Num(p1.x), canvas)
    /\ Half(Add(data[2], data[4])) = ToGLY(Num(p1.y), canvas)
    /\ Half(Add(data[5], data[7])) = ToGLX(Num(p2.x), canvas)
    /\ Half(Add(data[6], data[8])) = ToGLY(Num(p2.y), canvas)
    /\ Add(Square(Sub(data[1], data[3])), Square(Sub(data[2], data[4])))
          = Square(Rat(2 * w, MathMin(canvas.width, canvas.height)))
    /\ Add(Square(Sub(data[5], data[7])), Square(Sub(data[6], data[8])))
          = Square(Rat(2 * w, MathMin(canvas.width, canvas.height)))

C23_FallbackStreamsCoverFan ==
    [][(/\ lastCall'.op = "drawParticles"
        /\ ~lastCall'.raised
        /\ ~IsBatched(lastCall'.cmds))
       => \A d \in DrawIndices(lastCall'.cmds) :
             \A a \in InstanceAttrs :
                \A v \in 0..(lastCall'.cmds[d].n - 1) :
                   FetchIndex(ContextAt(ctx, lastCall'.cmds, d, env.outOfRange), a, v, 0)
                      < Elements(ContextAt(ctx, lastCall'.cmds, d, env.outOfRange), a)]_vars

ClearIndices(cmds) == {k \in 1..Len(cmds) : cmds[k].op = "clear"}

C26_OneFramePending ==
    [][/\ Pending(app') <= 1
       /\ (app'.last = "tick") => app.isRunning
       /\ (app'.last = "start" /\ app.isRunning)
             => (/\ Pending(app') = Pending(app)
                 /\ app'.animationId = app.animationId
                 /\ app'.isRunning)
       /\ (app'.last \in {"stop", "reset", "change"})
             => (~app'.isRunning /\ Pending(app') = 0)]_vars

\* the simulation stopped after two frames with nothing pending
C26_Witness ==
    /\ app.last = "stop"
    /\ app.totalFrames = 2
    /\ ~app.isRunning
    /\ Pending(app) = 0
    /\ app.animationId = "null"

C28_AverageOverOwnFrames ==
    (app.shown # NoShown) =>
        /\ app.shown.mode \in {0, 2} => app.shown.avg2D = Num(RenderTime)
        /\ app.shown.mode \in {1, 2} => app.shown.avgWebGL = Num(RenderTime)
\* C29: a particle created inside its canvas stays within one step of the
\* canvas on both axes (the step added to the edge as the program adds it),
\* keeps the magnitudes of its two speeds, and on neither axis is it beyond
\* the canvas after two consecutive updates.
C29_ParticleStaysNearCanvas ==
    (pt.updates > 0) =>
        /\ FlAdd(0, 0 - Abs(pt.speedX)) <= pt.x
        /\ pt.x <= FlAdd(pt.canvas.width, Abs(pt.speedX))
        /\ FlAdd(0, 0 - Abs(pt.speedY)) <= pt.y
        /\ pt.y <= FlAdd(pt.canvas.height, Abs(pt.speedY))
        /\ Abs(pt.speedX) = Abs(pt.created.speedX)
        /\ Abs(pt.speedY) = Abs(pt.created.speedY)
        /\ ~(pt.outside.x /\ pt.outsideBefore.x)
        /\ ~(pt.outside.y /\ pt.outsideBefore.y)
\* the functions of the context a call of the instanced renderer made
OpsOf(cmds) == [k \in 1..Len(cmds) |-> cmds[k].op]

\* every buffer the commands create is deleted by a later one of them
CreatedAreDeleted(cmds) ==
    \A k \in 1..Len(cmds) :
        (cmds[k].op = "createBuffer") =>
            \E j \in (k + 1)..Len(cmds) :
                cmds[j].op = "deleteBuffer" /\ cmds[j].target = cmds[k].target

C30_WitnessWebGLRenderer ==
    /\ wr.phase = "ready"
    /\ wr.call.op = "drawLine"
    /\ ~wr.call.raised
    /\ Len(wr.call.calls) > 0

====
